---- MODULE Spec2Model ----
(***************************************************************************)
(* Model of hermes-log-analyst's crash importer (src-tauri/src/crash.rs),  *)
(* crash store (src-tauri/src/db.rs) and live event collectors             *)
(* (src-tauri/src/logs/{linux,macos,windows}.rs).                          *)
(*                                                                         *)
(* Text is modelled by tokens: a Rust String built by format! is the       *)
(* sequence of the tokens it concatenates; a string whose characters       *)
(* matter (the crash id, a timestamp) is a sequence of characters.         *)
(* Option<T> is <<>> (None) or <<v>> (Some(v)).                            *)
(***************************************************************************)
EXTENDS Integers, Sequences, FiniteSets, TLC

VARIABLES
    \* ---- crash importer and crash store ----
    hostOs,       \* the target_os the binary was built for
    programData,  \* the ProgramData environment variable (windows), an Option
    fs,           \* the file system: path -> [kind, readable, mtime, content]
    crashes,      \* the rows of the crashes table (db.rs)
    imported,     \* what the last import_host_crashes returned
    candidates,   \* the records the last import handed to dedupe_and_limit
    lastLimit,    \* the limit argument of the last import_host_crashes
    phase,        \* "idle" | "imported": a round is import, then save
    rounds,       \* import-then-save rounds completed
    usedLimits,   \* limits of the completed rounds
    built,        \* every <<os, source, crash_type, raw_path, id>> built so far
    firstRows,    \* for every id ever saved, the row its first save wrote
    \* ---- live event collectors (logs/) ----
    max_events,   \* the max_events argument of the collection call, an Option
    channels,     \* the windows_channels argument, an Option of a list
    pc,           \* where the collection call stands
    max,          \* the effective cap the call computed
    result,       \* the CollectionResult under construction, then returned
    parse_failures, \* lines read that did not parse
    read_failures,  \* reads of stdout that failed
    child,        \* the subprocess: [state, status]
    stream,       \* what the reads of the child's stdout returned so far
    calls,        \* every call the collector made to the OS, in order
    selected,     \* windows: the normalised channel selection
    chan,         \* windows: index of the channel being queried
    events,       \* windows: events of collect_with_wevtapi
    had_channel,  \* windows: some channel returned Ok
    last_error,   \* windows: the error of a failed Security channel
    chEvents,     \* windows: events of the running collect_channel_events
    chMax,        \* windows: the budget given to collect_channel_events
    handle,       \* windows: the query handle of the channel (0: none)
    openHandles,  \* windows: native handles opened and not yet closed
    nextHandle,   \* windows: handles handed out so far
    nexts,        \* windows: EvtNext calls that returned a batch
    \* ---- the parsers, one native record at a time ----
    target,       \* the parser the record is for
    native,       \* the native record: a JSON line, an event's XML, a report path
    produced,     \* what the parser made of it, an Option
    \* ---- scan_files and read_lines_limited, step by step ----
    scanCap,      \* scan_files: max_scan, the cap of the running scan
    scanStack,    \* scan_files: stack, the paths still to visit
    scanMatches,  \* scan_files: matches, the matching files found, with their mtimes
    scanPc,       \* "idle" | "loop" | "done"
    scanned,      \* what scan_files returned
    popped,       \* every path scan_files popped from the stack
    readCall,     \* the last read_lines_limited call: arguments and result
    \* ---- db.rs: the SQLite store ----
    eventRows,    \* the events table, the sequence of its rows
    crashRows,    \* the crashes table, the sequence of its rows
    dbTx,         \* the open transaction of a save call, an Option
    dbSaved,      \* the last save call that returned, an Option
    dbRelated,    \* the last get_crash_related_events call, an Option
    \* ---- diagnostics.rs: the process-wide logger ----
    logger,       \* LOGGER: None before init_logging, else [date_key, file]
    logFiles,     \* the diagnostics-<date>.log files of logs_dir, by date
    today,        \* the local date of the clock
    logCount,     \* write_entry calls made so far
    lastLog,      \* the last write_entry call, an Option
    logBefore     \* the files as the last write_entry call found them

crashRest == <<programData, fs, crashes, imported, candidates,
               lastLimit, phase, rounds, usedLimits, built, firstRows>>

crashVars == <<hostOs, crashRest>>

procVars == <<parse_failures, read_failures, child, stream>>

winVars == <<selected, chan, events, had_channel, last_error, chEvents, chMax,
             handle, openHandles, nextHandle, nexts>>

collectVars == <<max_events, channels, pc, max, result, procVars, calls, winVars>>

parseVars == <<target, native, produced>>

scanVars == <<scanCap, scanStack, scanMatches, scanPc, scanned, popped, readCall>>

storeVars == <<eventRows, crashRows, dbTx, dbSaved, dbRelated>>

logVars == <<logger, logFiles, today, logCount, lastLog, logBefore>>

auxVars == <<scanVars, storeVars, logVars>>

vars == <<crashVars, collectVars, parseVars, auxVars>>

----------------------------------------------------------------------------
(* Bounds of the model *)

\* mtimes and the clock range over TimeBase-1 .. TimeBase-1+MaxTime
MaxTime == 2
\* matching files one scan_files call records
MaxFound == 6
\* import-then-save rounds per behaviour
MaxRounds == 2
\* write_entry calls per behaviour
MaxEntries == 3
\* local dates the clock goes through
MaxDays == 3
\* the random ids CrashRecord::new may draw (Uuid::new_v4)
MaxUuid == 1
\* reads of the subprocess's stdout that return a line, per collection call
MaxLines == 4
\* EvtNext calls that return a batch, per collection call
MaxNext == 2
\* event handles one EvtNext call returns
MaxBatch == 2
\* event handles the Event Log hands out, per collection call
MaxHandles == 3

----------------------------------------------------------------------------
(* Generic helpers *)

None == <<>>
Some(v) == <<v>>
IsSome(o) == o # <<>>
Unwrap(o) == o[1]
UnwrapOr(o, d) == IF o # <<>> THEN o[1] ELSE d
\* Option::or
OrElse(a, b) == IF a # <<>> THEN a ELSE b

Min(a, b) == IF a <= b THEN a ELSE b
Max(a, b) == IF a >= b THEN a ELSE b
\* Ord::clamp
Clamp(v, lo, hi) == IF v < lo THEN lo ELSE IF v > hi THEN hi ELSE v

\* Vec::truncate
Truncate(s, n) == IF Len(s) <= n THEN s ELSE SubSeq(s, 1, n)

Range(s) == {s[i] : i \in 1..Len(s)}

RECURSIVE Flatten(_)
Flatten(ss) == IF ss = <<>> THEN <<>> ELSE Head(ss) \o Flatten(Tail(ss))

\* lexicographic order on sequences of numbers: the order of str::cmp on
\* strings given as sequences of character codes
RECURSIVE LexLess(_, _)
LexLess(a, b) ==
    IF b = <<>> THEN FALSE
    ELSE IF a = <<>> THEN TRUE
    ELSE IF a[1] # b[1] THEN a[1] < b[1]
    ELSE LexLess(Tail(a), Tail(b))

\* slice::sort_by, a stable sort, for a comparator that orders by key
\* descending (right.key.cmp(&left.key)): insertion keeps equal keys in their
\* original order.  Elements are records with a field key, a sequence.
InsertDesc(sorted, e) ==
    LET later == {i \in 1..Len(sorted) : LexLess(sorted[i].key, e.key)}
        pos == IF later = {} THEN Len(sorted) + 1
               ELSE CHOOSE i \in later : \A j \in later : i <= j
    IN  SubSeq(sorted, 1, pos - 1) \o <<e>> \o SubSeq(sorted, pos, Len(sorted))

RECURSIVE SortDescFrom(_, _)
SortDescFrom(sorted, rest) ==
    IF rest = <<>> THEN sorted
    ELSE SortDescFrom(InsertDesc(sorted, Head(rest)), Tail(rest))

StableSortDesc(s) == SortDescFrom(<<>>, s)

----------------------------------------------------------------------------
(* Text tables: what the string functions of std do on the model's tokens *)

\* str::trim
Trim(s) ==
    CASE s = " " -> ""
      [] s = " APPCRASH " -> "APPCRASH"
      [] s = " foo crashed " -> "foo crashed"
      [] s = " System " -> "System"
      [] s = "  " -> ""
      [] s = " disk full " -> "disk full"
      [] OTHER -> s

\* str::to_ascii_lowercase, the base of eq_ignore_ascii_case
Lower(s) ==
    CASE s = "WER" -> "wer"
      [] s = "DMP" -> "dmp"
      [] s = "MEMORY.DMP" -> "memory.dmp"
      [] s = "Crash" -> "crash"
      [] s = "Application" -> "application"
      [] s = "System" -> "system"
      [] s = "Security" -> "security"
      [] s = "SECURITY" -> "security"
      [] s = "Security Audit Log" -> "security audit log"
      [] s = "OpenSSH/Operational" -> "openssh/operational"
      [] s = "Microsoft-Windows-Kernel-Power" -> "microsoft-windows-kernel-power"
      [] s = "Fault" -> "fault"
      [] s = "Error" -> "error"
      [] s = "Default" -> "default"
      [] s = "Info" -> "info"
      [] s = "Critical Error" -> "critical error"
      [] s = "WARNING" -> "warning"
      [] OTHER -> s

EqIgnoreAsciiCase(a, b) == Lower(a) = Lower(b)

\* str::starts_with("core")
StartsWithCore(name) == name \in {"core", "core.bash.1000"}

\* crash.rs basename: Path::new(path).file_name() of an extracted string
Basename(s) ==
    CASE s = "C:\\apps\\contoso.exe" -> Some("contoso.exe")
      [] s = "/usr/bin/foo" -> Some("foo")
      [] s = ".." -> None
      [] OTHER -> Some(s)

HexDigits == <<"0", "1", "2", "3", "4", "5", "6", "7",
               "8", "9", "a", "b", "c", "d", "e", "f">>

----------------------------------------------------------------------------
(* The file system the importer scans *)

WerArchive == "C:\\ProgramData\\Microsoft\\Windows\\WER\\ReportArchive"
WerQueue == "C:\\ProgramData\\Microsoft\\Windows\\WER\\ReportQueue"
WinMinidump == "C:\\Windows\\Minidump"
WinDir == "C:\\Windows"
MacSystemReports == "/Library/Logs/DiagnosticReports"
MacUserReports == "/Users/u/Library/Logs/DiagnosticReports"
VarCrash == "/var/crash"
Coredump == "/var/lib/systemd/coredump"

WinFiles == {"C:\\ProgramData\\Microsoft\\Windows\\WER\\ReportArchive\\Report.wer",
             "C:\\ProgramData\\Microsoft\\Windows\\WER\\ReportQueue\\Report.WER",
             "C:\\Windows\\Minidump\\mini.dmp",
             "C:\\Windows\\MEMORY.DMP"}
MacFiles == {"/Library/Logs/DiagnosticReports/kernel.panic",
             "/Library/Logs/DiagnosticReports/notes.txt",
             "/Users/u/Library/Logs/DiagnosticReports/Safari.crash",
             "/Users/u/Library/Logs/DiagnosticReports/app.ips"}
\* <FF> and <FE> stand for bytes that are not valid UTF-8
LinuxFiles == {"/var/crash/a<FF>.crash",
               "/var/crash/a<FE>.crash",
               "/var/crash/other.Crash",
               "/var/crash/notes.txt",
               "/var/lib/systemd/coredump/core.bash.1000"}

DirPaths == {WerArchive, WerQueue, WinMinidump, WinDir,
             MacSystemReports, MacUserReports, VarCrash, Coredump}
FilePaths == WinFiles \cup MacFiles \cup LinuxFiles
Paths == DirPaths \cup FilePaths

FilesOf(os) ==
    CASE os = "windows" -> WinFiles
      [] os = "macos" -> MacFiles
      [] os = "linux" -> LinuxFiles

\* fs::read_dir: the entries of a directory, in the order the file system
\* lists them (fixed while the directory is unchanged)
ReadDir(dir) ==
    CASE dir = WerArchive ->
            <<"C:\\ProgramData\\Microsoft\\Windows\\WER\\ReportArchive\\Report.wer">>
      [] dir = WerQueue ->
            <<"C:\\ProgramData\\Microsoft\\Windows\\WER\\ReportQueue\\Report.WER">>
      [] dir = WinMinidump -> <<"C:\\Windows\\Minidump\\mini.dmp">>
      [] dir = WinDir -> <<WinMinidump, "C:\\Windows\\MEMORY.DMP">>
      [] dir = MacSystemReports ->
            <<"/Library/Logs/DiagnosticReports/kernel.panic",
              "/Library/Logs/DiagnosticReports/notes.txt">>
      [] dir = MacUserReports ->
            <<"/Users/u/Library/Logs/DiagnosticReports/Safari.crash",
              "/Users/u/Library/Logs/DiagnosticReports/app.ips">>
      [] dir = VarCrash ->
            <<"/var/crash/a<FF>.crash", "/var/crash/a<FE>.crash",
              "/var/crash/other.Crash", "/var/crash/notes.txt",
              "/var/crash/old", "/var/crash/latest.crash">>
      [] dir = "/var/crash/old" -> <<"/var/crash/old/b.crash", "/var/crash/old/up">>
      [] dir = Coredump -> <<"/var/lib/systemd/coredump/core.bash.1000">>
      [] OTHER -> <<>>

\* Path::file_name().and_then(|name| name.to_str()): None when the name is
\* not valid UTF-8
FileNameStr(path) ==
    CASE path = "C:\\ProgramData\\Microsoft\\Windows\\WER\\ReportArchive\\Report.wer" ->
            Some("Report.wer")
      [] path = "C:\\ProgramData\\Microsoft\\Windows\\WER\\ReportQueue\\Report.WER" ->
            Some("Report.WER")
      [] path = "C:\\Windows\\Minidump\\mini.dmp" -> Some("mini.dmp")
      [] path = "C:\\Windows\\MEMORY.DMP" -> Some("MEMORY.DMP")
      [] path = "/Library/Logs/DiagnosticReports/kernel.panic" -> Some("kernel.panic")
      [] path = "/Library/Logs/DiagnosticReports/notes.txt" -> Some("notes.txt")
      [] path = "/Users/u/Library/Logs/DiagnosticReports/Safari.crash" ->
            Some("Safari.crash")
      [] path = "/Users/u/Library/Logs/DiagnosticReports/app.ips" -> Some("app.ips")
      [] path = "/var/crash/other.Crash" -> Some("other.Crash")
      [] path = "/var/crash/old" -> Some("old")
      [] path = "/var/crash/old/b.crash" -> Some("b.crash")
      [] path = "/var/crash/old/up" -> Some("up")
      [] path = "/var/crash/latest.crash" -> Some("latest.crash")
      [] path = "/var/crash/notes.txt" -> Some("notes.txt")
      [] path = "/var/lib/systemd/coredump/core.bash.1000" -> Some("core.bash.1000")
      [] OTHER -> None

\* Path::extension().and_then(|ext| ext.to_str()): the text after the last dot
\* of the file name
Extension(path) ==
    CASE path = "C:\\ProgramData\\Microsoft\\Windows\\WER\\ReportArchive\\Report.wer" ->
            Some("wer")
      [] path = "C:\\ProgramData\\Microsoft\\Windows\\WER\\ReportQueue\\Report.WER" ->
            Some("WER")
      [] path = "C:\\Windows\\Minidump\\mini.dmp" -> Some("dmp")
      [] path = "C:\\Windows\\MEMORY.DMP" -> Some("DMP")
      [] path = "/Library/Logs/DiagnosticReports/kernel.panic" -> Some("panic")
      [] path = "/Library/Logs/DiagnosticReports/notes.txt" -> Some("txt")
      [] path = "/Users/u/Library/Logs/DiagnosticReports/Safari.crash" -> Some("crash")
      [] path = "/Users/u/Library/Logs/DiagnosticReports/app.ips" -> Some("ips")
      [] path = "/var/crash/a<FF>.crash" -> Some("crash")
      [] path = "/var/crash/a<FE>.crash" -> Some("crash")
      [] path = "/var/crash/other.Crash" -> Some("Crash")
      [] path = "/var/crash/old/b.crash" -> Some("crash")
      [] path = "/var/crash/latest.crash" -> Some("crash")
      [] path = "/var/crash/notes.txt" -> Some("txt")
      [] path = "/var/lib/systemd/coredump/core.bash.1000" -> Some("1000")
      [] OTHER -> None

\* Path::to_string_lossy: bytes that are not valid UTF-8 become U+FFFD
ToStringLossy(path) ==
    IF path \in {"/var/crash/a<FF>.crash", "/var/crash/a<FE>.crash"}
    THEN "/var/crash/a<U+FFFD>.crash"
    ELSE path

\* str::split('.') of a file name
SplitDots(name) ==
    CASE name = "core.bash.1000" -> <<"core", "bash", "1000">>
      [] name = "unknown" -> <<"unknown">>
      [] OTHER -> <<name>>

\* the mtimes of the model: some with one digit, some with two
Times == 9..(8 + MaxTime)

\* std::fs::symlink_metadata: "missing" stands for every Err
FsKind(path) == IF path \in DOMAIN fs THEN fs[path].kind ELSE "missing"

\* the lines of a crash report: key and value are the text before and after
\* the first separator ('=' in a .wer file, ':' elsewhere), sep tells whether
\* the line has one, ok whether the line is valid UTF-8, len its byte length
Line(k, v, n) == [ok |-> TRUE, sep |-> TRUE, key |-> k, value |-> v, len |-> n]

WerContent(variant) ==
    CASE variant = 1 ->
            <<Line("FriendlyEventName", "Application Error", 35),
              Line("AppName", "contoso.exe", 19)>>
      [] variant = 3 ->
            <<Line("EventType", "APPCRASH", 18),
              Line("Sig[1].Value", "1.0.0.0", 20),
              Line("Sig[2].Value", "5f3c2a", 19),
              Line("Description", "Stopped working", 27)>>
      [] variant = 4 ->
            <<Line("EventType", "APPCRASH", 18),
              Line("Sig[0].Value", "contoso.exe", 24),
              Line("FaultModuleName", "..", 18)>>
      [] variant = 5 ->
            <<[ok |-> TRUE, sep |-> FALSE, key |-> "Version", value |-> "", len |-> 7]>>
      [] OTHER ->
            <<Line("FriendlyEventName", " ", 19),
              [ok |-> FALSE, sep |-> FALSE, key |-> "", value |-> "", len |-> 4],
              Line("ProblemType", " APPCRASH ", 22),
              Line("AppPath", "C:\\apps\\contoso.exe", 27)>>

ApportContent(variant) ==
    IF variant = 1
    THEN <<Line("ProblemType", "Crash", 18),
           Line("ExecutablePath", "/usr/bin/foo", 28),
           Line("Signal", "11", 10)>>
    ELSE <<Line("Title", " foo crashed ", 19)>>

MacContent(variant) ==
    IF variant = 1
    THEN <<Line("Process", "Safari [123]", 21),
           Line("Exception Type", "EXC_BAD_ACCESS", 30)>>
    ELSE <<[ok |-> TRUE, sep |-> FALSE, key |-> "no fields", value |-> "", len |-> 9]>>

ContentLines(path) ==
    LET ext == Extension(path)
        v == fs[path].content
    IN  IF path \in WinFiles /\ IsSome(ext) /\ EqIgnoreAsciiCase(Unwrap(ext), "wer")
        THEN WerContent(v)
        ELSE IF path \in LinuxFiles /\ IsSome(ext) /\ EqIgnoreAsciiCase(Unwrap(ext), "crash")
        THEN ApportContent(v)
        ELSE IF path \in MacFiles THEN MacContent(v)
        ELSE <<>>

----------------------------------------------------------------------------
(* crash.rs: the bounded utilities *)

\* the closures import_*_crashes pass to scan_files
Matcher(tag, path) ==
    LET ext == Extension(path)
        name == UnwrapOr(FileNameStr(path), "")
    IN  CASE tag = "wer" -> IsSome(ext) /\ EqIgnoreAsciiCase(Unwrap(ext), "wer")
          [] tag = "dump" ->
                \/ EqIgnoreAsciiCase(name, "MEMORY.DMP")
                \/ IsSome(ext) /\ EqIgnoreAsciiCase(Unwrap(ext), "dmp")
          [] tag = "macos" -> IsSome(ext) /\ Lower(Unwrap(ext)) \in {"crash", "panic", "ips"}
          [] tag = "linux" ->
                \/ IsSome(ext) /\ EqIgnoreAsciiCase(Unwrap(ext), "crash")
                \/ IsSome(ext) /\ EqIgnoreAsciiCase(Unwrap(ext), "dmp")
                \/ StartsWithCore(name)

\* scan_files, the while-let loop: pop a path, skip what cannot be read,
\* push a directory's entries, record a matching regular file
RECURSIVE ScanLoop(_, _, _)
ScanLoop(stack, matches, tag) ==
    IF stack = <<>> THEN matches
    ELSE LET path == stack[Len(stack)]
             rest == SubSeq(stack, 1, Len(stack) - 1)
             kind == FsKind(path)
         IN  IF kind = "missing" THEN ScanLoop(rest, matches, tag)
             ELSE IF kind = "dir" THEN ScanLoop(rest \o ReadDir(path), matches, tag)
             ELSE IF kind # "file" \/ ~Matcher(tag, path) THEN ScanLoop(rest, matches, tag)
             ELSE ScanLoop(rest,
                           Append(matches, [path |-> path, key |-> <<fs[path].mtime>>]),
                           tag)

scan_files(roots, tag, max_scan) ==
    LET matches == ScanLoop(roots, <<>>, tag)
        ranked == Truncate(StableSortDesc(matches), max_scan)
    IN  [i \in 1..Len(ranked) |-> ranked[i].path]

\* read_lines_limited, the for loop over reader.lines().take(max_lines)
RECURSIVE ReadLoop(_, _, _, _, _, _)
ReadLoop(lines, i, max_lines, max_bytes, seen, out) ==
    IF i > Len(lines) \/ i > max_lines THEN out
    ELSE IF ~lines[i].ok THEN ReadLoop(lines, i + 1, max_lines, max_bytes, seen, out)
    ELSE IF seen + lines[i].len >= max_bytes THEN Append(out, lines[i])
    ELSE ReadLoop(lines, i + 1, max_lines, max_bytes,
                  seen + lines[i].len, Append(out, lines[i]))

\* read_lines_limited without the "if seen >= max_bytes { break; }"
read_lines_limited_NoByteCap(path, max_lines, max_bytes) ==
    IF FsKind(path) # "file" THEN <<>>
    ELSE ReadLoop(ContentLines(path), 1, max_lines, max_bytes + 1048576, 0, <<>>)

read_lines_limited(path, max_lines, max_bytes) ==
    IF FsKind(path) # "file" THEN <<>>
    ELSE ReadLoop(ContentLines(path), 1, max_lines, max_bytes, 0, <<>>)

\* trim_file_name
trim_file_name(path) == UnwrapOr(FileNameStr(path), "unknown")

\* the HashMap parse_windows_wer and parse_linux_report fill: the lines with a
\* separator, keys and values trimmed; a later line replaces an earlier key
Fields(lines) ==
    LET idx == {i \in 1..Len(lines) : lines[i].sep}
    IN  [k \in {Trim(lines[i].key) : i \in idx} |->
            LET last == CHOOSE i \in idx :
                            /\ Trim(lines[i].key) = k
                            /\ \A j \in idx : Trim(lines[j].key) = k => j <= i
            IN  Trim(lines[last].value)]

\* pick_map_value: the first key whose value is not blank
RECURSIVE pick_map_value(_, _)
pick_map_value(map, keys) ==
    IF keys = <<>> THEN None
    ELSE IF Head(keys) \in DOMAIN map /\ Trim(map[Head(keys)]) # ""
         THEN Some(Trim(map[Head(keys)]))
         ELSE pick_map_value(map, Tail(keys))

\* find_prefixed_value (macos): lines outer, prefixes inner
RECURSIVE find_prefixed_value(_, _)
find_prefixed_value(lines, prefixes) ==
    IF lines = <<>> THEN None
    ELSE LET l == Head(lines)
         IN  IF l.sep /\ l.key \in Range(prefixes) /\ Trim(l.value) # ""
             THEN Some(Trim(l.value))
             ELSE find_prefixed_value(Tail(lines), prefixes)

----------------------------------------------------------------------------
(* crash.rs: identity *)

\* the width of {:016x}
HexWidth == 16

ImportedPrefix == <<"i", "m", "p", "o", "r", "t", "e", "d", "-">>

\* the tokens a seed can hold, for the hasher to tell apart
TokenTable ==
    <<"|", "windows", "macos", "linux",
      "WER", "KernelDump", "Minidump", "DiagnosticReports", "apport", "systemd-coredump",
      "Application Error", "APPCRASH", "Crash Report", "Kernel Memory Dump",
      "Kernel Panic", "Application Crash", "Crash", "Core Dump",
      "C:\\ProgramData\\Microsoft\\Windows\\WER\\ReportArchive\\Report.wer",
      "C:\\ProgramData\\Microsoft\\Windows\\WER\\ReportQueue\\Report.WER",
      "C:\\Windows\\Minidump\\mini.dmp",
      "C:\\Windows\\MEMORY.DMP",
      "/Library/Logs/DiagnosticReports/kernel.panic",
      "/Library/Logs/DiagnosticReports/notes.txt",
      "/Users/u/Library/Logs/DiagnosticReports/Safari.crash",
      "/Users/u/Library/Logs/DiagnosticReports/app.ips",
      "/var/crash/a<U+FFFD>.crash", "/var/crash/other.Crash", "/var/crash/notes.txt",
      "/var/lib/systemd/coredump/core.bash.1000",
      "contoso.exe">>

TokenCode(tok) == CHOOSE i \in 1..Len(TokenTable) : TokenTable[i] = tok

\* one 16-bit lane of the hasher's state after absorbing the seed
RECURSIVE Absorb(_, _, _)
Absorb(seed, h, m) ==
    IF seed = <<>> THEN h
    ELSE Absorb(Tail(seed), (h * m + TokenCode(Head(seed))) % 65536, m)

\* DefaultHasher::new(); seed.hash(&mut hasher); hasher.finish(): a fixed
\* function of the seed, a u64 given as four 16-bit limbs, most significant
\* first.  std's SipHash is stood for by a keyless mixing function that is
\* injective on the seeds of this model.
DefaultHasherFinish(seed) ==
    <<Absorb(seed, 0, 3), Absorb(seed, 1, 31),
      Absorb(seed, 2, 257), Absorb(seed, 3, 4099)>>

\* the hex digits of a u64, most significant first, leading zeros included
Nibbles(limbs) ==
    Flatten([i \in 1..Len(limbs) |->
                <<limbs[i] \div 4096, (limbs[i] \div 256) % 16,
                  (limbs[i] \div 16) % 16, limbs[i] % 16>>])

RECURSIVE StripLeadingZeros(_)
StripLeadingZeros(ds) ==
    IF Len(ds) > 1 /\ ds[1] = 0 THEN StripLeadingZeros(Tail(ds)) ELSE ds

\* format!("{:016x}", v): the lowercase hex digits of v, left-padded with '0'
\* to HexWidth characters
FormatHex016(limbs) ==
    LET digits == StripLeadingZeros(Nibbles(limbs))
        pad == Max(HexWidth - Len(digits), 0)
    IN  [i \in 1..pad |-> "0"] \o [i \in 1..Len(digits) |-> HexDigits[digits[i] + 1]]

stable_id(seed) == ImportedPrefix \o FormatHex016(DefaultHasherFinish(seed))

\* Uuid::new_v4().to_string(): the u-th random id
UuidString(u) == <<"u", "u", "i", "d", "-", HexDigits[u + 1]>>

\* DateTime::<Utc>::to_rfc3339 of an instant: fixed-width decimal fields, given
\* as character codes of the digits
to_rfc3339(t) == <<t \div 10, t % 10>>

system_time_to_rfc3339(value) == to_rfc3339(value)

\* file_timestamp: the modification time, else the time of the call
file_timestamp(path, now) ==
    IF FsKind(path) # "missing" THEN system_time_to_rfc3339(fs[path].mtime)
    ELSE to_rfc3339(now)

\* CrashRecord::new: a random id and the time of the call
CrashRecordNew(os, source, crash_type, code, summary, suspected_component, raw_path, isImported, uuid, now) ==
    [id |-> UuidString(uuid),
     timestamp |-> to_rfc3339(now),
     os |-> os,
     source |-> source,
     crash_type |-> crash_type,
     code |-> code,
     summary |-> summary,
     suspected_component |-> suspected_component,
     raw_path |-> raw_path,
     imported |-> isImported]

\* build_imported_crash without "crash.id = stable_id(seed)"
build_imported_crash_KeepsRandomId(os, source, crash_type, code, summary, suspected_component, raw_path, timestamp, uuid, now) ==
    LET raw_path_value == IF IsSome(raw_path) THEN Some(ToStringLossy(Unwrap(raw_path)))
                          ELSE None
        crash == CrashRecordNew(os, source, crash_type, code, summary,
                                suspected_component, raw_path_value, TRUE, uuid, now)
    IN  [crash EXCEPT !.timestamp = timestamp]

\* build_imported_crash
build_imported_crash(os, source, crash_type, code, summary, suspected_component, raw_path, timestamp, uuid, now) ==
    LET raw_path_value == IF IsSome(raw_path) THEN Some(ToStringLossy(Unwrap(raw_path)))
                          ELSE None
        seed == <<os, "|", source, "|", crash_type, "|">>
                    \o (IF IsSome(raw_path_value) THEN raw_path_value ELSE summary)
        crash == CrashRecordNew(os, source, crash_type, code, summary,
                                suspected_component, raw_path_value, TRUE, uuid, now)
    IN  [crash EXCEPT !.id = stable_id(seed), !.timestamp = timestamp]

----------------------------------------------------------------------------
(* crash.rs: the per-platform parsers *)

\* the extracted string kept whole
SuspectedOf_Raw(extracted) == extracted

\* app.and_then(basename).or(app)
SuspectedOf(extracted) ==
    IF IsSome(extracted) THEN OrElse(Basename(Unwrap(extracted)), extracted) ELSE None

parse_windows_wer(path, uuid, now) ==
    LET fields == Fields(read_lines_limited(path, 600, 512 * 1024))
        crash_type == UnwrapOr(
            pick_map_value(fields, <<"FriendlyEventName", "ProblemType",
                                     "Sig[0].Value", "EventType">>),
            "Crash Report")
        code == pick_map_value(fields, <<"BugcheckCode", "ExceptionCode", "Sig[8].Value",
                                         "Sig[9].Value", "Sig[1].Value">>)
        app == pick_map_value(fields, <<"AppName", "FaultModuleName",
                                        "Fault Module Name", "AppPath">>)
        desc == pick_map_value(fields, <<"Description", "ProblemSignatures">>)
        summary == IF IsSome(app) THEN <<crash_type, ": ", Unwrap(app)>>
                   ELSE IF IsSome(desc) THEN <<crash_type, ": ", Unwrap(desc)>>
                   ELSE <<crash_type, ": ", trim_file_name(path)>>
    IN  build_imported_crash("windows", "WER", crash_type, code, summary,
                             SuspectedOf(app), Some(path),
                             file_timestamp(path, now), uuid, now)

parse_windows_dump(path, uuid, now) ==
    LET file_name == trim_file_name(path)
        is_kernel == EqIgnoreAsciiCase(file_name, "MEMORY.DMP")
        crash_type == IF is_kernel THEN "Kernel Memory Dump" ELSE "Minidump"
    IN  build_imported_crash("windows", IF is_kernel THEN "KernelDump" ELSE "Minidump",
                             crash_type, None, <<crash_type, ": ", file_name>>, None,
                             Some(path), file_timestamp(path, now), uuid, now)

parse_macos_report(path, uuid, now) ==
    LET lines == read_lines_limited(path, 300, 256 * 1024)
        process == find_prefixed_value(lines, <<"Process", "Path", "Identifier">>)
        exception == find_prefixed_value(
            lines, <<"Exception Type", "panicString", "Exception Codes">>)
        extension == Lower(UnwrapOr(Extension(path), ""))
        crash_type == CASE extension = "panic" -> "Kernel Panic"
                        [] extension = "ips" -> "Crash Report"
                        [] OTHER -> "Application Crash"
        summary == IF IsSome(process) THEN <<crash_type, ": ", Unwrap(process)>>
                   ELSE <<crash_type, ": ", trim_file_name(path)>>
    IN  build_imported_crash("macos", "DiagnosticReports", crash_type, exception,
                             summary, SuspectedOf(process), Some(path),
                             file_timestamp(path, now), uuid, now)

parse_linux_report(path, uuid, now) ==
    LET ext == UnwrapOr(Extension(path), "")
    IN  IF EqIgnoreAsciiCase(ext, "crash")
        THEN LET fields == Fields(read_lines_limited(path, 400, 256 * 1024))
                 crash_type == UnwrapOr(pick_map_value(fields, <<"ProblemType">>), "Crash")
                 code == pick_map_value(fields, <<"Signal", "SignalName", "CrashCounter">>)
                 executable == pick_map_value(fields, <<"ExecutablePath", "ProcCmdline">>)
                 title == pick_map_value(fields, <<"Title">>)
                 summary ==
                    IF IsSome(title) THEN <<Unwrap(title)>>
                    ELSE IF IsSome(executable)
                    THEN <<crash_type, ": ",
                           UnwrapOr(Basename(Unwrap(executable)), Unwrap(executable))>>
                    ELSE <<crash_type, ": ", trim_file_name(path)>>
             IN  build_imported_crash("linux", "apport", crash_type, code, summary,
                                      SuspectedOf(executable), Some(path),
                                      file_timestamp(path, now), uuid, now)
        ELSE LET file_name == trim_file_name(path)
                 tokens == SplitDots(file_name)
                 guessed_process == IF Len(tokens) >= 2 THEN Some(tokens[2]) ELSE None
             IN  build_imported_crash("linux", "systemd-coredump", "Core Dump", None,
                                      <<"Core dump: ", file_name>>, guessed_process,
                                      Some(path), file_timestamp(path, now), uuid, now)

----------------------------------------------------------------------------
(* crash.rs: the importer *)

\* a retain that keeps the last record of each id
DedupeFirst_KeepsLast(cs) ==
    LET keep == {i \in 1..Len(cs) : \A j \in (i + 1)..Len(cs) : cs[j].id # cs[i].id}
        nth(k) == CHOOSE i \in keep : Cardinality({j \in keep : j <= i}) = k
    IN  [k \in 1..Cardinality(keep) |-> cs[nth(k)]]

\* HashSet-based retain: keep a record iff no earlier record has its id
DedupeFirst(cs) ==
    LET keep == {i \in 1..Len(cs) : \A j \in 1..(i - 1) : cs[j].id # cs[i].id}
        nth(k) == CHOOSE i \in keep : Cardinality({j \in keep : j <= i}) = k
    IN  [k \in 1..Cardinality(keep) |-> cs[nth(k)]]

\* crashes.sort_by(|left, right| right.timestamp.cmp(&left.timestamp))
SortByTimestampDesc(cs) ==
    LET keyed == [i \in 1..Len(cs) |-> [key |-> cs[i].timestamp, rec |-> cs[i]]]
        sorted == StableSortDesc(keyed)
    IN  [i \in 1..Len(sorted) |-> sorted[i].rec]

\* dedupe_and_limit truncating to the scan cap instead of the limit
dedupe_and_limit_ScanCap(cs, limit) ==
    Truncate(SortByTimestampDesc(DedupeFirst(cs)), limit * 4)

dedupe_and_limit(cs, limit) ==
    Truncate(SortByTimestampDesc(DedupeFirst(cs)), limit)

\* the WER roots taken from the ProgramData environment variable
EnvWerRoots(pd) ==
    IF pd = None THEN <<>>
    ELSE IF Unwrap(pd) = "C:\\ProgramData" THEN <<WerArchive, WerQueue>>
    ELSE <<"D:\\Data\\Microsoft\\Windows\\WER\\ReportArchive",
           "D:\\Data\\Microsoft\\Windows\\WER\\ReportQueue">>

\* the candidates of import_windows_crashes: the parsed .wer files, then the dumps;
\* the i-th record built draws the random id uuid + i - 1
WindowsCandidates(limit, uuid, now) ==
    LET wer_roots == <<WerArchive, WerQueue>> \o EnvWerRoots(programData)
        wer_files == scan_files(wer_roots, "wer", limit * 4)
        dump_files == scan_files(<<WinMinidump, WinDir>>, "dump", limit * 4)
    IN  [i \in 1..Len(wer_files) |-> parse_windows_wer(wer_files[i], uuid + i - 1, now)]
        \o [i \in 1..Len(dump_files) |->
                parse_windows_dump(dump_files[i], uuid + Len(wer_files) + i - 1, now)]

MacosCandidates(limit, uuid, now) ==
    LET files == scan_files(<<MacSystemReports, MacUserReports>>, "macos", limit * 4)
    IN  [i \in 1..Len(files) |-> parse_macos_report(files[i], uuid + i - 1, now)]

LinuxCandidates(limit, uuid, now) ==
    LET files == scan_files(<<VarCrash, Coredump>>, "linux", limit * 4)
    IN  [i \in 1..Len(files) |-> parse_linux_report(files[i], uuid + i - 1, now)]

\* import_*_crashes return the result of dedupe_and_limit; the model keeps the
\* candidates beside it
import_windows_crashes(limit, uuid, now) ==
    LET cs == WindowsCandidates(limit, uuid, now)
    IN  [candidates |-> cs, crashes |-> dedupe_and_limit(cs, limit)]

import_macos_crashes(limit, uuid, now) ==
    LET cs == MacosCandidates(limit, uuid, now)
    IN  [candidates |-> cs, crashes |-> dedupe_and_limit(cs, limit)]

import_linux_crashes(limit, uuid, now) ==
    LET cs == LinuxCandidates(limit, uuid, now)
    IN  [candidates |-> cs, crashes |-> dedupe_and_limit(cs, limit)]

\* the limit import_host_crashes works with
CappedLimit(limit) == Clamp(limit, 1, 2000)

\* import_host_crashes: the cfg(target_os) arm of the build
import_host_crashes(limit, uuid, now) ==
    LET capped == CappedLimit(limit)
    IN  CASE hostOs = "windows" -> import_windows_crashes(capped, uuid, now)
          [] hostOs = "macos" -> import_macos_crashes(capped, uuid, now)
          [] hostOs = "linux" -> import_linux_crashes(capped, uuid, now)

----------------------------------------------------------------------------
(* db.rs: the crashes table *)

\* params![...] of save_crashes: the columns of one row
CrashRow(crash) == [crash EXCEPT !.imported = IF crash.imported THEN 1 ELSE 0]

\* INSERT INTO crashes without the ON CONFLICT clause taking effect
UpsertCrash_AlwaysInserts(table, row) == Append(table, row)

\* INSERT INTO crashes ... ON CONFLICT(id) DO UPDATE SET <every other column>:
\* the table is the sequence of its rows
UpsertCrash(table, row) ==
    IF \E i \in 1..Len(table) : table[i].id = row.id
    THEN [i \in 1..Len(table) |-> IF table[i].id = row.id THEN row ELSE table[i]]
    ELSE Append(table, row)

\* the for loop of save_crashes inside its transaction
RECURSIVE UpsertAll(_, _)
UpsertAll(table, cs) ==
    IF cs = <<>> THEN table
    ELSE UpsertAll(UpsertCrash(table, CrashRow(Head(cs))), Tail(cs))

save_crashes(table, cs) == UpsertAll(table, cs)

----------------------------------------------------------------------------
(* The crash importer as a state machine: rounds of import, then save *)

\* the limits a caller passes
LimitInputs == {0, 2, 2001}

\* the files whose presence, mtime and content vary between behaviours
VariableFiles(os) ==
    CASE os = "windows" ->
            <<"C:\\ProgramData\\Microsoft\\Windows\\WER\\ReportArchive\\Report.wer",
              "C:\\Windows\\Minidump\\mini.dmp">>
      [] os = "macos" ->
            <<"/Library/Logs/DiagnosticReports/kernel.panic",
              "/Users/u/Library/Logs/DiagnosticReports/Safari.crash">>
      [] os = "linux" ->
            <<"/var/crash/a<FF>.crash", "/var/lib/systemd/coredump/core.bash.1000">>

MissingFile == [kind |-> "missing", mtime |-> 0, content |-> 1]
Directory == [kind |-> "dir", mtime |-> 0, content |-> 1]

FileStates ==
    {MissingFile} \cup [kind : {"file"}, mtime : Times, content : {1, 2}]

\* the other files of the host: always there
FixedFile(p) ==
    IF p \in {"C:\\Windows\\MEMORY.DMP", "/var/crash/other.Crash",
              "/Users/u/Library/Logs/DiagnosticReports/app.ips"}
    THEN [kind |-> "file", mtime |-> 10, content |-> 1]
    ELSE [kind |-> "file", mtime |-> 9, content |-> 2]

\* a file system of the host: its directories, its fixed files, and the
\* variable files in the states st gives them
FileSystem(os, st) ==
    LET vf == VariableFiles(os)
    IN  [p \in Paths |->
            IF p \in DirPaths THEN Directory
            ELSE IF p \in Range(vf) THEN st[CHOOSE i \in 1..Len(vf) : vf[i] = p]
            ELSE IF p \in FilesOf(os) THEN FixedFile(p)
            ELSE MissingFile]

\* the instants Utc::now() may return during an import
Nows == {9, 10}

ProgramDataValues(os) ==
    IF os = "windows" THEN {None, Some("C:\\ProgramData"), Some("D:\\Data")} ELSE {None}

\* no record is being parsed
ParserIdle ==
    /\ target = "none"
    /\ native = None
    /\ produced = None

\* no scan is running and no file is being read
ScanIdle ==
    /\ scanCap = 0
    /\ scanStack = <<>>
    /\ scanMatches = <<>>
    /\ scanPc = "idle"
    /\ scanned = <<>>
    /\ popped = {}
    /\ readCall = None

\* no store call was made
StoreIdle ==
    /\ eventRows = <<>>
    /\ crashRows = <<>>
    /\ dbTx = <<>>
    /\ dbSaved = <<>>
    /\ dbRelated = <<>>

\* the logger was never initialised and nothing was logged
LoggerIdle ==
    /\ logger = <<>>
    /\ logFiles = <<>>
    /\ today = 1
    /\ logCount = 0
    /\ lastLog = <<>>
    /\ logBefore = <<>>

AuxIdle == ScanIdle /\ StoreIdle /\ LoggerIdle

\* no collection call is running
CollectorIdle ==
    /\ max_events = None
    /\ channels = None
    /\ pc = "idle"
    /\ max = 0
    /\ result = [events |-> <<>>, warnings |-> <<>>, errors |-> <<>>]
    /\ parse_failures = 0
    /\ read_failures = 0
    /\ child = [state |-> "none", status |-> "none"]
    /\ stream = <<>>
    /\ calls = <<>>
    /\ selected = <<>>
    /\ chan = 1
    /\ events = <<>>
    /\ had_channel = FALSE
    /\ last_error = None
    /\ chEvents = <<>>
    /\ chMax = 0
    /\ handle = 0
    /\ openHandles = {}
    /\ nextHandle = 0
    /\ nexts = 0

InitCrash ==
    /\ hostOs \in {"windows", "macos", "linux"}
    /\ programData \in ProgramDataValues(hostOs)
    /\ \E st \in [1..2 -> FileStates] : fs = FileSystem(hostOs, st)
    /\ crashes = <<>>
    /\ imported = <<>>
    /\ candidates = <<>>
    /\ lastLimit = 0
    /\ phase = "idle"
    /\ rounds = 0
    /\ usedLimits = {}
    /\ built = {}
    /\ firstRows = {}
    /\ CollectorIdle
    /\ ParserIdle
    /\ AuxIdle

\* a caller runs import_host_crashes(limit)
ImportHostCrashes ==
    /\ phase = "idle"
    /\ rounds < MaxRounds
    /\ \E limit \in LimitInputs, uuid \in 0..MaxUuid, now \in Nows :
        \E r \in {import_host_crashes(limit, uuid, now)} :
            /\ imported' = r.crashes
            /\ candidates' = r.candidates
            /\ lastLimit' = limit
            /\ built' = built \cup {<<c.os, c.source, c.crash_type, c.raw_path, c.id>> :
                                      c \in Range(r.candidates)}
    /\ phase' = "imported"
    /\ UNCHANGED <<hostOs, programData, fs, crashes, rounds, usedLimits, firstRows>>
    /\ UNCHANGED <<collectVars, parseVars, auxVars>>

\* the caller hands the imported records to save_crashes
SaveCrashes ==
    /\ phase = "imported"
    /\ crashes' = save_crashes(crashes, imported)
    /\ firstRows' = firstRows \cup
            {CrashRow(imported[i]) : i \in
                {j \in 1..Len(imported) :
                    /\ \A k \in 1..Len(crashes) : crashes[k].id # imported[j].id
                    /\ \A k \in 1..(j - 1) : imported[k].id # imported[j].id}}
    /\ usedLimits' = usedLimits \cup {lastLimit}
    /\ rounds' = rounds + 1
    /\ phase' = "idle"
    /\ UNCHANGED <<hostOs, programData, fs, imported, candidates, lastLimit, built>>
    /\ UNCHANGED <<collectVars, parseVars, auxVars>>

NextCrash == ImportHostCrashes \/ SaveCrashes

SpecCrash == InitCrash /\ [][NextCrash]_vars

----------------------------------------------------------------------------
(* Properties of the crash importer and the crash store (SpecCrash) *)

HexChars == {HexDigits[i] : i \in 1..16}

\* C1: the id of a scanner-discovered crash record is a function of (os,
\* source, crashType, rawPath): every record built, in this import call or an
\* earlier one, for the same four values carries the same id, and that id is
\* "imported-" followed by exactly 16 lowercase hex digits.
C1_StableCrashId ==
    /\ \A a \in built : \A b \in built :
            (a[1] = b[1] /\ a[2] = b[2] /\ a[3] = b[3] /\ a[4] = b[4]) => a[5] = b[5]
    /\ \A a \in built :
            /\ Len(a[5]) = 25
            /\ SubSeq(a[5], 1, 9) = <<"i", "m", "p", "o", "r", "t", "e", "d", "-">>
            /\ \A i \in 10..25 : a[5][i] \in HexChars
    /\ \A i \in 1..Len(imported) :
            <<imported[i].os, imported[i].source, imported[i].crash_type,
              imported[i].raw_path, imported[i].id>> \in built

\* C1 witness: a second import call has rebuilt a record an earlier call had
\* built and saved, and has built one artifact twice within the call
C1_Witness ==
    /\ phase = "imported"
    /\ rounds >= 1
    /\ \E i \in 1..Len(candidates) : \E k \in 1..Len(crashes) :
            candidates[i].id = crashes[k].id
    /\ \E i \in 1..Len(candidates) : \E j \in 1..Len(candidates) :
            i < j /\ candidates[i].raw_path = candidates[j].raw_path

C2_OneRowPerId ==
    /\ \A i \in 1..Len(crashes) : \A j \in 1..Len(crashes) :
            i # j => crashes[i].id # crashes[j].id
    /\ Range(crashes) = firstRows

\* C2: after any sequence of import-then-save rounds over unchanged artifacts
\* the store holds one row per distinct crash id, every row equal to what the
\* first save of its id wrote, and a round that repeats an earlier round's
\* limit leaves the table as it was.
C2_ReimportIdempotent ==
    /\ []C2_OneRowPerId
    /\ [][(phase = "imported" /\ lastLimit \in usedLimits) => crashes' = crashes]_vars

\* C2 witness: two rounds with the same limit have run and rows are stored
C2_Witness ==
    /\ phase = "idle"
    /\ rounds = 2
    /\ Cardinality(usedLimits) = 1
    /\ Len(crashes) >= 2

\* C3: import_host_crashes returns at most clamp(limit, 1, 2000) records.
C3_ImportBounded ==
    phase = "imported" =>
        Len(imported) <= (IF lastLimit < 1 THEN 1
                          ELSE IF lastLimit > 2000 THEN 2000 ELSE lastLimit)

\* C3 witness: a call with limit 0 found several candidates and returned one
C3_Witness ==
    /\ phase = "imported"
    /\ lastLimit = 0
    /\ Len(candidates) >= 3
    /\ Len(imported) = 1

FirstIndexOfId(id) ==
    CHOOSE i \in 1..Len(candidates) :
        /\ candidates[i].id = id
        /\ \A j \in 1..(i - 1) : candidates[j].id # id

\* C4: the returned list has no two records with the same id and is ordered by
\* timestamp non-increasing; each returned record is the first candidate of its
\* id, as many distinct ids are returned as the limit allows (duplicates are
\* removed before the list is ranked and cut), and records with equal
\* timestamps stay in candidate order.
C4_DedupedAndRanked ==
    phase = "imported" =>
        /\ \A i \in 1..Len(imported) : \A j \in 1..Len(imported) :
                i < j =>
                    /\ imported[i].id # imported[j].id
                    /\ ~LexLess(imported[i].timestamp, imported[j].timestamp)
                    /\ imported[i].timestamp = imported[j].timestamp =>
                            FirstIndexOfId(imported[i].id) < FirstIndexOfId(imported[j].id)
        /\ \A i \in 1..Len(imported) :
                /\ \E k \in 1..Len(candidates) : candidates[k].id = imported[i].id
                /\ imported[i] = candidates[FirstIndexOfId(imported[i].id)]
        /\ Len(imported) =
                Min(IF lastLimit < 1 THEN 1
                    ELSE IF lastLimit > 2000 THEN 2000 ELSE lastLimit,
                    Cardinality({candidates[k].id : k \in 1..Len(candidates)}))

\* C4 witness: two candidates with one id and different content, and two
\* returned records with different timestamps
C4_Witness ==
    /\ phase = "imported"
    /\ \E i \in 1..Len(candidates) : \E j \in 1..Len(candidates) :
            /\ candidates[i].id = candidates[j].id
            /\ candidates[i] # candidates[j]
    /\ \E i \in 1..Len(imported) : \E j \in 1..Len(imported) :
            LexLess(imported[j].timestamp, imported[i].timestamp)

----------------------------------------------------------------------------
(* logs/: what the collectors share *)

\* max_events.unwrap_or(2000)
DefaultMaxEvents == 2000
\* .min(10000)
MaxEventsCap == 10000

\* let max = max_events.unwrap_or(2000).min(10000)
EffectiveMax(requested) == Min(UnwrapOr(requested, DefaultMaxEvents), MaxEventsCap)

MaxIsZero_Never(m) == FALSE

\* if max == 0 { return ... }
MaxIsZero(m) == m = 0

CapReached_Never(len, m) == FALSE

\* events.len() >= max
CapReached(len, m) == len >= m

\* CollectionResult::default()
DefaultResult == [events |-> <<>>, warnings |-> <<>>, errors |-> <<>>]

\* a call the collector makes to the operating system, as the log records it
Call(op, arg, ret) == [op |-> op, arg |-> arg, ret |-> ret]

\* a formatted message: the format string and the value it interpolates
Message(text, arg) == [text |-> text, arg |-> arg]

----------------------------------------------------------------------------
(* logs/linux.rs and logs/macos.rs: the subprocess collectors *)

\* Command::new(..)
Program(os) == IF os = "linux" THEN "journalctl" ELSE "log"

SpawnFailed(os, error) ==
    Message(IF os = "linux" THEN "Failed to run journalctl: {error}"
            ELSE "Failed to run macOS log collector: {error}", error)

NoStdout(os) ==
    Message(IF os = "linux" THEN "journalctl did not expose stdout."
            ELSE "macOS log collector did not expose stdout.", "")

ReadFailureWarning(os, n) ==
    Message(IF os = "linux"
            THEN "Encountered {read_failures} journalctl stdout read failure(s)."
            ELSE "Encountered {read_failures} macOS log stdout read failure(s).",
            ToString(n))

ParseFailureText(os) ==
    IF os = "linux" THEN "Skipped {parse_failures} non-JSON or malformed journal entries."
    ELSE "Skipped {parse_failures} non-JSON or malformed macOS log entries."

ParseFailureWarning(os, n) == Message(ParseFailureText(os), ToString(n))

\* Display of an ExitStatus that is not a success
StatusDisplay(status) ==
    IF status = "signal" THEN "signal: 9 (SIGKILL)" ELSE "exit status: 1"

ExitMessage(os, status) ==
    Message(IF os = "linux" THEN "journalctl exited with status {status}."
            ELSE "macOS log collector exited with status {status}.",
            StatusDisplay(status))

WaitFailed(os, error) ==
    Message(IF os = "linux" THEN "Failed to wait for journalctl process: {error}"
            ELSE "Failed to wait for macOS log collector process: {error}", error)

\* what one read of the child's stdout may give: a line that is a JSON
\* object, a blank line, a line that is not JSON, or an I/O error
LineKinds == {"valid", "blank", "malformed", "unreadable"}

\* parse_journal_line / parse_log_line: None unless the line is JSON; the
\* event is named by the position n of its line in the stream
parse_line(os, line, n) ==
    IF line = "valid" THEN Some([os |-> os, src |-> ToString(n)]) ELSE None

\* the warnings pushed after the read loop
ReadFailureWarnings(os, n) == IF n > 0 THEN <<ReadFailureWarning(os, n)>> ELSE <<>>

ParseFailureWarnings_PerLine(os, n) == [i \in 1..n |-> ParseFailureWarning(os, 1)]

ParseFailureWarnings(os, n) == IF n > 0 THEN <<ParseFailureWarning(os, n)>> ELSE <<>>

\* Child::kill: a running child dies of the signal, an exited one is untouched
KillChild(ch) ==
    IF ch.state = "running" THEN [state |-> "exited", status |-> "signal"] ELSE ch

OnCap_KeepsReading(cl, ch, os) ==
    [pc |-> "read", calls |-> Append(cl, Call("kill", Program(os), "ok")),
     child |-> KillChild(ch)]

\* the cap branch of the read loop: let _ = child.kill(); break;
OnCap(cl, ch, os) ==
    [pc |-> "report", calls |-> Append(cl, Call("kill", Program(os), "ok")),
     child |-> KillChild(ch)]

ExitReport_AlwaysError(res, message) ==
    [res EXCEPT !.errors = Append(@, message)]

\* the arms of match child.wait() that are not a success
ExitReport(res, message) ==
    IF res.events = <<>> THEN [res EXCEPT !.errors = Append(@, message)]
    ELSE [res EXCEPT !.warnings = Append(@, message)]

\* collect_events_range, up to the spawn
CollectStart ==
    /\ pc = "start"
    /\ hostOs \in {"linux", "macos"}
    /\ max' = EffectiveMax(max_events)
    /\ IF MaxIsZero(max')
       THEN /\ result' = DefaultResult
            /\ pc' = "done"
       ELSE /\ result' = DefaultResult
            /\ pc' = "spawn"
    /\ UNCHANGED <<auxVars, parseVars, crashVars, max_events, channels, procVars, calls, winVars>>

\* command.spawn()
Spawn ==
    /\ pc = "spawn"
    /\ \/ /\ child' = [state |-> "running", status |-> "none"]
          /\ calls' = Append(calls, Call("spawn", Program(hostOs), "ok"))
          /\ pc' = "take_stdout"
          /\ UNCHANGED result
       \/ /\ result' = [result EXCEPT !.errors =
                            Append(@, SpawnFailed(hostOs, "No such file or directory (os error 2)"))]
          /\ calls' = Append(calls, Call("spawn", Program(hostOs), "err"))
          /\ pc' = "done"
          /\ UNCHANGED child
    /\ UNCHANGED <<auxVars, parseVars, crashVars, max_events, channels, max, parse_failures,
                   read_failures, stream, winVars>>

\* child.stdout.take()
TakeStdout ==
    /\ pc = "take_stdout"
    /\ \/ /\ pc' = "read"
          /\ UNCHANGED result
       \/ /\ result' = [result EXCEPT !.errors = Append(@, NoStdout(hostOs))]
          /\ pc' = "done"
    /\ UNCHANGED <<auxVars, parseVars, crashVars, max_events, channels, max, procVars, calls, winVars>>

\* read_failures is a usize: += 1 wraps at the width of the counter, which
\* the model keeps just above the number of lines a stream can have
CounterWrap == MaxLines + 2

\* read_failures += 1
CountFailure(n) == (n + 1) % CounterWrap

\* the last read of stdout failed with an error that persists: the read
\* consumed nothing, and the next read of the pipe fails in the same way
Broken == stream # <<>> /\ stream[Len(stream)] = "broken"

\* what the next item of reader.lines() may be: a line of one of the kinds,
\* the end of the stream, or an error that persists; on a broken pipe only
\* the error
NextItems == IF Broken THEN {"broken"} ELSE LineKinds \cup {"eof", "broken"}

\* one turn of for line in reader.lines(): the read, and the loop body (the
\* call log keeps the first of a run of failed reads of a broken pipe)
ReadLine ==
    /\ pc = "read"
    /\ \E line \in NextItems :
        /\ (line # "eof" /\ ~Broken) => Len(stream) < MaxLines
        /\ \E cl \in {Append(calls, Call("read", Program(hostOs), line))} :
            IF line = "eof"
            THEN /\ pc' = "report"
                 /\ calls' = cl
                 /\ UNCHANGED <<result, procVars>>
            ELSE IF line = "broken"
            THEN /\ stream' = IF Broken THEN stream ELSE Append(stream, line)
                 /\ calls' = IF Broken THEN calls ELSE cl
                 /\ read_failures' = CountFailure(read_failures)
                 /\ pc' = "read"
                 /\ UNCHANGED <<result, parse_failures, child>>
            ELSE /\ stream' = Append(stream, line)
                 /\ IF line = "unreadable"
                    THEN /\ read_failures' = CountFailure(read_failures)
                         /\ pc' = "read"
                         /\ calls' = cl
                         /\ UNCHANGED <<result, parse_failures, child>>
                    ELSE IF line = "blank"
                    THEN /\ pc' = "read"
                         /\ calls' = cl
                         /\ UNCHANGED <<result, parse_failures, read_failures, child>>
                    ELSE \E parsed \in {parse_line(hostOs, line, Len(stream) + 1)} :
                         IF IsSome(parsed)
                         THEN /\ result' = [result EXCEPT !.events = Append(@, Unwrap(parsed))]
                              /\ IF CapReached(Len(result'.events), max)
                                 THEN \E o \in {OnCap(cl, child, hostOs)} :
                                         /\ pc' = o.pc
                                         /\ calls' = o.calls
                                         /\ child' = o.child
                                 ELSE /\ pc' = "read"
                                      /\ calls' = cl
                                      /\ UNCHANGED child
                              /\ UNCHANGED <<parse_failures, read_failures>>
                         ELSE /\ parse_failures' = parse_failures + 1
                              /\ pc' = "read"
                              /\ calls' = cl
                              /\ UNCHANGED <<result, read_failures, child>>
    /\ UNCHANGED <<auxVars, parseVars, crashVars, max_events, channels, max, winVars>>

\* the two aggregate warnings pushed between the loop and the wait
Report ==
    /\ pc = "report"
    /\ result' = [result EXCEPT !.warnings =
                      @ \o ReadFailureWarnings(hostOs, read_failures)
                        \o ParseFailureWarnings(hostOs, parse_failures)]
    /\ pc' = "wait"
    /\ UNCHANGED <<auxVars, parseVars, crashVars, max_events, channels, max, procVars, calls, winVars>>

\* match child.wait(): it returns the status of a child that has exited and
\* reaps it, or fails
Wait ==
    /\ pc = "wait"
    /\ \/ /\ child.state = "exited"
          /\ child' = [child EXCEPT !.state = "reaped"]
          /\ calls' = Append(calls, Call("wait", Program(hostOs), child.status))
          /\ result' = IF child.status = "success" THEN result
                       ELSE ExitReport(result, ExitMessage(hostOs, child.status))
       \/ /\ calls' = Append(calls, Call("wait", Program(hostOs), "err"))
          /\ result' = ExitReport(result, WaitFailed(hostOs, "No child processes (os error 10)"))
          /\ UNCHANGED child
    /\ pc' = "done"
    /\ UNCHANGED <<auxVars, parseVars, crashVars, max_events, channels, max, parse_failures,
                   read_failures, stream, winVars>>

\* the subprocess ends by itself, with a zero or a non-zero exit code
ChildExit ==
    /\ child.state = "running"
    /\ \E status \in {"success", "failure"} :
            child' = [state |-> "exited", status |-> status]
    /\ UNCHANGED <<auxVars, parseVars, crashVars, max_events, channels, pc, max, result,
                   parse_failures, read_failures, stream, calls, winVars>>

----------------------------------------------------------------------------
(* logs/windows.rs: the Event Log collector *)

DEFAULT_CHANNELS == <<"Application", "System", "Security">>

\* vec![0 as EVT_HANDLE; 16]
BatchSize == 16

\* the match of normalize_channels
ChannelOf(name) ==
    CASE name = "application" -> Some("Application")
      [] name = "system" -> Some("System")
      [] name = "security" -> Some("Security")
      [] OTHER -> None

RECURSIVE NormalizeLoop(_, _)
NormalizeLoop(values, sel) ==
    IF values = <<>> THEN sel
    ELSE LET normalized == ChannelOf(Lower(Trim(Head(values))))
         IN  NormalizeLoop(Tail(values),
                 IF IsSome(normalized) /\ Unwrap(normalized) \notin Range(sel)
                 THEN Append(sel, Unwrap(normalized)) ELSE sel)

normalize_channels(chs) ==
    LET sel == IF IsSome(chs) THEN NormalizeLoop(Unwrap(chs), <<>>) ELSE <<>>
    IN  IF sel = <<>> THEN DEFAULT_CHANNELS ELSE sel

\* what a slot of a batch holds: an event that renders and whose publisher
\* metadata opens, an event that renders but whose publisher metadata does not
\* open, an event whose XML cannot be rendered, or a null handle
HandleKinds == {"event", "nometa", "norender", "null"}

\* the batches one EvtNext call may return
Batches == UNION {[1..n -> HandleKinds] : n \in 1..Min(MaxBatch, BatchSize)}

\* the handles among the first idx slots of a batch
NonNull(batch, idx) == Cardinality({i \in 1..idx : batch[i] # "null"})

\* the handle in slot idx of a batch whose handles follow base
SlotHandle(batch, idx, base) ==
    IF batch[idx] = "null" THEN 0 ELSE base + NonNull(batch, idx)

\* the handle EvtOpenPublisherMetadata returns while event handle h is rendered
MetaHandle(h) == 0 - h

\* render_event: None when the XML of the event cannot be rendered
render_event(h, kind, channel) ==
    IF kind \in {"event", "nometa"}
    THEN Some([os |-> "windows", src |-> ToString(h)]) ELSE None

\* the native calls of render_event(h, ..) and of the EvtClose(h) after it;
\* the EvtHandle of format_event_message closes the metadata handle on drop
RenderCalls(h, kind) ==
    <<[op |-> "EvtRender", arg |-> ToString(h),
       ret |-> IF kind = "norender" THEN "err" ELSE "ok"]>>
    \o (IF kind = "event"
        THEN <<[op |-> "EvtOpenPublisherMetadata", arg |-> ToString(h),
                ret |-> ToString(MetaHandle(h))],
               [op |-> "EvtClose", arg |-> ToString(MetaHandle(h)), ret |-> "ok"]>>
        ELSE IF kind = "nometa"
        THEN <<[op |-> "EvtOpenPublisherMetadata", arg |-> ToString(h), ret |-> "0"]>>
        ELSE <<>>)
    \o <<[op |-> "EvtClose", arg |-> ToString(h), ret |-> "ok"]>>

RestHandles_Forgotten(batch, idx, base) == <<>>

\* the handles the cap branch closes: the non-null slots after idx
RECURSIVE RestHandles(_, _, _)
RestHandles(batch, idx, base) ==
    IF idx >= Len(batch) THEN <<>>
    ELSE (IF SlotHandle(batch, idx + 1, base) # 0
          THEN <<SlotHandle(batch, idx + 1, base)>> ELSE <<>>)
         \o RestHandles(batch, idx + 1, base)

\* the EvtClose calls of a list of handles
CloseCalls(hs) == [i \in 1..Len(hs) |-> Call("EvtClose", ToString(hs[i]), "ok")]

\* for idx in 0..returned: from acc = [events, closed, log] at slot idx, the
\* events after the batch, the event handles closed, the native calls made
\* (in order), and whether the function returned from inside the loop
RECURSIVE ProcessBatch(_, _, _, _, _, _)
ProcessBatch(batch, idx, base, channel, budget, acc) ==
    IF idx > Len(batch)
    THEN [events |-> acc.events, closed |-> acc.closed, log |-> acc.log, capped |-> FALSE]
    ELSE IF SlotHandle(batch, idx, base) = 0
    THEN ProcessBatch(batch, idx + 1, base, channel, budget, acc)
    ELSE LET h == SlotHandle(batch, idx, base)
             rendered == render_event(h, batch[idx], channel)
             closed2 == Append(acc.closed, h)
             log2 == acc.log \o RenderCalls(h, batch[idx])
         IN  IF IsSome(rendered)
             THEN IF CapReached(Len(acc.events) + 1, budget)
                  THEN [events |-> Append(acc.events, Unwrap(rendered)),
                        closed |-> closed2 \o RestHandles(batch, idx, base),
                        log |-> log2 \o CloseCalls(RestHandles(batch, idx, base)),
                        capped |-> TRUE]
                  ELSE ProcessBatch(batch, idx + 1, base, channel, budget,
                            [events |-> Append(acc.events, Unwrap(rendered)),
                             closed |-> closed2, log |-> log2])
             ELSE ProcessBatch(batch, idx + 1, base, channel, budget,
                       [events |-> acc.events, closed |-> closed2, log |-> log2])

ChannelOutcome_AllHard(channel, error) == "hard"

ChannelOutcome_AllSoft(channel, error) == "soft"

\* what a failed EvtQuery or EvtNext on the channel is to the call: "ok" when
\* collect_channel_events turns it into Ok(Vec::new()) (access denied on
\* Security), "soft" when collect_with_wevtapi keeps the Err as last_error
\* (Security), "hard" when it returns the Err
ChannelOutcome(channel, error) ==
    IF error = "ERROR_ACCESS_DENIED" /\ channel = "Security" THEN "ok"
    ELSE IF channel = "Security" THEN "soft"
    ELSE "hard"

\* collect_with_wevtapi receives what collect_channel_events returned for the
\* channel: Ok(evs) when the outcome is "ok", Err otherwise
ChannelReturns(outcome, evs) ==
    IF outcome = "ok"
    THEN /\ had_channel' = TRUE
         /\ events' = events \o evs
         /\ chan' = chan + 1
         /\ pc' = "channel"
         /\ UNCHANGED <<last_error, result>>
    ELSE IF outcome = "soft"
    THEN /\ last_error' = Some(selected[chan])
         /\ chan' = chan + 1
         /\ pc' = "channel"
         /\ UNCHANGED <<had_channel, events, result>>
    ELSE /\ result' = DefaultResult
         /\ pc' = "done"
         /\ UNCHANGED <<had_channel, events, chan, last_error>>

\* collect_events_range_with_channels, up to the channel loop
WinStart ==
    /\ pc = "start"
    /\ hostOs = "windows"
    /\ max' = EffectiveMax(max_events)
    /\ result' = DefaultResult
    /\ IF MaxIsZero(max')
       THEN /\ pc' = "done"
            /\ UNCHANGED selected
       ELSE /\ selected' = normalize_channels(channels)
            /\ pc' = "channel"
    /\ UNCHANGED <<auxVars, parseVars, crashVars, max_events, channels, procVars, calls, chan, events,
                   had_channel, last_error, chEvents, chMax, handle, openHandles,
                   nextHandle, nexts>>

\* the next channel of the loop: EvtQuery of collect_channel_events
WinQuery ==
    /\ pc = "channel"
    /\ chan <= Len(selected)
    /\ ~CapReached(Len(events), max)
    /\ \/ /\ handle' = nextHandle + 1
          /\ nextHandle' = nextHandle + 1
          /\ openHandles' = openHandles \cup {nextHandle + 1}
          /\ calls' = Append(calls, Call("EvtQuery", selected[chan], ToString(nextHandle + 1)))
          /\ chEvents' = <<>>
          /\ chMax' = max - Len(events)
          /\ pc' = "next"
          /\ UNCHANGED <<had_channel, events, chan, last_error, result>>
       \/ \E error \in {"ERROR_ACCESS_DENIED", "ERROR_EVT_CHANNEL_NOT_FOUND"} :
          /\ calls' = Append(calls, Call("EvtQuery", selected[chan], error))
          /\ ChannelReturns(ChannelOutcome(selected[chan], error), <<>>)
          /\ UNCHANGED <<handle, nextHandle, openHandles, chEvents, chMax>>
    /\ UNCHANGED <<auxVars, parseVars, crashVars, max_events, channels, max, procVars, selected, nexts>>

\* one EvtNext of the loop of collect_channel_events, and the for loop over
\* the batch it returned
WinNext ==
    /\ pc = "next"
    /\ \/ /\ nexts < MaxNext
          /\ \E batch \in Batches :
             /\ nextHandle + Len(batch) <= MaxHandles
             /\ \E r \in {ProcessBatch(batch, 1, nextHandle, selected[chan], chMax,
                                       [events |-> chEvents, closed |-> <<>>, log |-> <<>>])} :
                /\ nexts' = nexts + 1
                /\ nextHandle' = nextHandle + NonNull(batch, Len(batch))
                /\ IF r.capped
                   THEN /\ calls' = Append(calls, Call("EvtNext", selected[chan], ToString(Len(batch))))
                                    \o r.log \o CloseCalls(<<handle>>)
                        /\ openHandles' = (openHandles
                                \cup {SlotHandle(batch, i, nextHandle) : i \in 1..Len(batch)})
                                \ ({0, handle} \cup Range(r.closed))
                        /\ handle' = 0
                        /\ chEvents' = <<>>
                        /\ ChannelReturns("ok", r.events)
                   ELSE /\ calls' = Append(calls, Call("EvtNext", selected[chan], ToString(Len(batch))))
                                    \o r.log
                        /\ openHandles' = (openHandles
                                \cup {SlotHandle(batch, i, nextHandle) : i \in 1..Len(batch)})
                                \ ({0} \cup Range(r.closed))
                        /\ chEvents' = r.events
                        /\ UNCHANGED <<handle, had_channel, events, chan,
                                       last_error, result, pc>>
       \/ \E error \in {"ERROR_NO_MORE_ITEMS", "ERROR_INVALID_HANDLE"} :
          /\ calls' = Append(calls, Call("EvtNext", selected[chan], error))
                      \o CloseCalls(<<handle>>)
          /\ openHandles' = openHandles \ {handle}
          /\ handle' = 0
          /\ chEvents' = <<>>
          /\ ChannelReturns(IF error = "ERROR_NO_MORE_ITEMS" THEN "ok"
                            ELSE ChannelOutcome(selected[chan], error), chEvents)
          /\ UNCHANGED <<nexts, nextHandle>>
    /\ UNCHANGED <<auxVars, parseVars, crashVars, max_events, channels, max, procVars, selected, chMax>>

\* the end of the channel loop: the result of collect_with_wevtapi, and what
\* collect_events_range_with_channels makes of it
WinFinish ==
    /\ pc = "channel"
    /\ chan > Len(selected) \/ CapReached(Len(events), max)
    /\ result' = IF events = <<>> /\ ~had_channel THEN DefaultResult
                 ELSE [DefaultResult EXCEPT !.events = events]
    /\ pc' = "done"
    /\ UNCHANGED <<auxVars, parseVars, crashVars, max_events, channels, max, procVars, calls, winVars>>

----------------------------------------------------------------------------
(* The collectors as a state machine: one collection call per behaviour *)

\* the max_events a caller passes
MaxEventsInputs == {None, Some(0), Some(1), Some(2), Some(10001)}

\* the windows_channels a caller passes
ChannelInputs(os) ==
    IF os = "windows"
    THEN {None, Some(<<"SECURITY">>), Some(<<" System ", "bogus", "Security", "system">>)}
    ELSE {None}

InitCollect ==
    /\ hostOs \in {"windows", "macos", "linux"}
    /\ programData = None
    /\ fs = FileSystem(hostOs, [i \in 1..2 |-> MissingFile])
    /\ crashes = <<>>
    /\ imported = <<>>
    /\ candidates = <<>>
    /\ lastLimit = 0
    /\ phase = "idle"
    /\ rounds = 0
    /\ usedLimits = {}
    /\ built = {}
    /\ firstRows = {}
    /\ max_events \in MaxEventsInputs
    /\ channels \in ChannelInputs(hostOs)
    /\ pc = "start"
    /\ max = 0
    /\ result = DefaultResult
    /\ parse_failures = 0
    /\ read_failures = 0
    /\ child = [state |-> "none", status |-> "none"]
    /\ stream = <<>>
    /\ calls = <<>>
    /\ selected = <<>>
    /\ chan = 1
    /\ events = <<>>
    /\ had_channel = FALSE
    /\ last_error = None
    /\ chEvents = <<>>
    /\ chMax = 0
    /\ handle = 0
    /\ openHandles = {}
    /\ nextHandle = 0
    /\ nexts = 0
    /\ ParserIdle
    /\ AuxIdle

NextCollect ==
    \/ CollectStart
    \/ Spawn
    \/ TakeStdout
    \/ ReadLine
    \/ Report
    \/ Wait
    \/ ChildExit
    \/ WinStart
    \/ WinQuery
    \/ WinNext
    \/ WinFinish

SpecCollect == InitCollect /\ [][NextCollect]_vars

\* a collection call is sequential, blocking code: it takes its next step
\* while it has one, and a child that is awaited exits or the wait fails
SpecCollectFair == SpecCollect /\ WF_vars(NextCollect)

----------------------------------------------------------------------------
(* Properties of the live event collectors (SpecCollect) *)

\* the effective cap as the contract words it: min(maxEvents, 10000), where
\* maxEvents is 2000 when the caller passes none
ContractCap ==
    LET requested == IF max_events = None THEN 2000 ELSE max_events[1]
    IN  IF requested <= 10000 THEN requested ELSE 10000

SubprocessAdapter == hostOs \in {"linux", "macos"}

CallIndexes(op) == {i \in 1..Len(calls) : calls[i].op = op}

SpawnedOk == \E i \in CallIndexes("spawn") : calls[i].ret = "ok"

\* how many reads of stdout returned a line of the kind
CountLines(kind) == Cardinality({i \in 1..Len(stream) : stream[i] = kind})

\* the wait of the call returned a failure: a status that is not a success,
\* or an error of the wait itself
WaitFailedWith(rets) ==
    /\ calls # <<>>
    /\ calls[Len(calls)].op = "wait"
    /\ calls[Len(calls)].ret \in rets

\* the events of the valid lines read, in the order they were read
RECURSIVE EventsOfStream(_)
EventsOfStream(n) ==
    IF n = 0 THEN <<>>
    ELSE IF stream[n] = "valid"
         THEN Append(EventsOfStream(n - 1), [os |-> hostOs, src |-> ToString(n)])
         ELSE EventsOfStream(n - 1)

\* C5: on every adapter the events of a collection call never number more
\* than min(maxEvents, 10000), maxEvents being 2000 when none is passed,
\* whatever the native source emits.
C5_EventsWithinCap ==
    /\ Len(result.events) <= ContractCap
    /\ Len(events) <= ContractCap

C5_Witness ==
    /\ pc = "done"
    /\ max_events = Some(2)
    /\ Len(result.events) = 2
    /\ \/ Len(stream) = 2 /\ child.state = "reaped"
       \/ nexts = MaxNext

\* C6: a call with maxEvents = 0 returns a result with no events, no warnings
\* and no errors, and never spawns a subprocess or opens a query handle.
C6_ZeroMaxIsImmediate ==
    max_events = Some(0) =>
        /\ calls = <<>>
        /\ child.state = "none"
        /\ openHandles = {}
        /\ nextHandle = 0
        /\ pc = "done" => /\ result.events = <<>>
                          /\ result.warnings = <<>>
                          /\ result.errors = <<>>

C6_Witness == max_events = Some(0) /\ pc = "done"

\* C7: a returned result with errors has no events; a non-zero exit or a
\* failed wait after at least one collected event is appended to the warnings
\* and every collected event is returned, and with no event collected it is
\* appended to the errors.
C7_ErrorsOnlyWithoutEvents ==
    pc = "done" =>
        /\ result.errors # <<>> => result.events = <<>>
        /\ (SubprocessAdapter /\ WaitFailedWith({"failure", "signal", "err"})) =>
              LET message == IF calls[Len(calls)].ret = "err"
                             THEN WaitFailed(hostOs, "No child processes (os error 10)")
                             ELSE ExitMessage(hostOs, calls[Len(calls)].ret)
              IN  IF CountLines("valid") >= 1
                  THEN /\ result.events = EventsOfStream(Len(stream))
                       /\ result.errors = <<>>
                       /\ result.warnings # <<>>
                       /\ result.warnings[Len(result.warnings)] = message
                  ELSE /\ result.events = <<>>
                       /\ result.errors = <<message>>

C7_Witness ==
    /\ pc = "done"
    /\ WaitFailedWith({"failure"})
    /\ Len(result.events) = 2
    /\ max_events = None
    /\ result.warnings # <<>>

\* C8: k valid lines (1 <= k < cap) and m >= 1 malformed lines in any order,
\* then a non-zero exit: the result has exactly k events, exactly one warning
\* about malformed lines, which carries m, and no errors.
C8_MalformedLinesAggregated ==
    LET k == CountLines("valid")
        m == CountLines("malformed")
        malformed == {i \in 1..Len(result.warnings) :
                        result.warnings[i].text \in
                          {"Skipped {parse_failures} non-JSON or malformed journal entries.",
                           "Skipped {parse_failures} non-JSON or malformed macOS log entries."}}
    IN  (/\ pc = "done"
         /\ SubprocessAdapter
         /\ k + m = Len(stream)
         /\ 1 <= k
         /\ k < ContractCap
         /\ m >= 1
         /\ WaitFailedWith({"failure"}))
        => /\ Len(result.events) = k
           /\ Cardinality(malformed) = 1
           /\ \A i \in malformed : result.warnings[i].arg = ToString(m)
           /\ result.errors = <<>>

C8_Witness ==
    /\ pc = "done"
    /\ stream = <<"malformed", "valid", "malformed">>
    /\ WaitFailedWith({"failure"})
    /\ Len(result.warnings) = 2

\* C9: once the subprocess has been spawned, collect_events_range does not
\* return before it has waited on the child, so no call returns leaving a
\* running or un-reaped child.
C9_WaitBeforeReturn ==
    (pc = "done" /\ SubprocessAdapter /\ SpawnedOk) => CallIndexes("wait") # {}

\* C10: when the collected events reach the cap the collector kills the
\* subprocess at once and stops: the kill follows the read of the line that
\* filled the cap, no read and no push follows the kill, and the kill comes
\* before the wait.
C10_KillAtCapThenStop ==
    SubprocessAdapter =>
        /\ \A i \in CallIndexes("kill") :
              /\ i > 1
              /\ calls[i - 1].op = "read" /\ calls[i - 1].ret = "valid"
              /\ \A j \in (i + 1)..Len(calls) : calls[j].op = "wait"
              /\ Len(result.events) = ContractCap
              /\ pc # "read"
        /\ \A i \in CallIndexes("wait") : \A j \in CallIndexes("kill") : j < i
        /\ (ContractCap >= 1 /\ Len(result.events) >= ContractCap) =>
              CallIndexes("kill") # {}

C10_Witness ==
    /\ pc = "done"
    /\ CallIndexes("kill") # {}
    /\ CallIndexes("wait") # {}
    /\ stream = <<"valid", "blank", "valid">>

----------------------------------------------------------------------------
(* Properties of the Event Log collector (SpecCollect) *)

WindowsAdapter == hostOs = "windows"

\* the events of the EvtRender calls that succeeded, in call order
RECURSIVE RenderedEvents(_)
RenderedEvents(n) ==
    IF n = 0 THEN <<>>
    ELSE IF calls[n].op = "EvtRender" /\ calls[n].ret = "ok"
         THEN Append(RenderedEvents(n - 1), [os |-> "windows", src |-> calls[n].arg])
         ELSE RenderedEvents(n - 1)

\* the EvtQuery calls on Security that were refused with access denied
SecurityDenied ==
    {i \in CallIndexes("EvtQuery") :
        calls[i].arg = "Security" /\ calls[i].ret = "ERROR_ACCESS_DENIED"}

\* the EvtQuery and EvtNext calls that failed on the channels of the set
FailuresOn(chs) ==
    {i \in 1..Len(calls) :
        /\ calls[i].arg \in chs
        /\ \/ calls[i].op = "EvtQuery" /\ calls[i].ret \in
                    {"ERROR_ACCESS_DENIED", "ERROR_EVT_CHANNEL_NOT_FOUND"}
           \/ calls[i].op = "EvtNext" /\ calls[i].ret = "ERROR_INVALID_HANDLE"}

\* C11: a Security channel whose opening is refused with access denied gives
\* no event and no hard error: no batch is pulled from it, the events of the
\* other channels are returned, and a call that selects Security alone
\* returns an empty result without errors.
C11_SecurityDeniedIsSoft ==
    (WindowsAdapter /\ SecurityDenied # {} /\ FailuresOn({"Application", "System"}) = {}) =>
        /\ \A j \in CallIndexes("EvtNext") : calls[j].arg # "Security"
        /\ pc = "done" =>
              /\ result.events = RenderedEvents(Len(calls))
              /\ result.errors = <<>>
              /\ selected = <<"Security">> => result = DefaultResult

C11_Witness ==
    /\ pc = "done"
    /\ SecurityDenied # {}
    /\ Len(selected) = 3
    /\ Len(result.events) = 2
    /\ max_events = None

\* C12: when the query of a channel other than Security fails, at its opening
\* or at a batch pull, access denied included, no channel is queried after
\* it and the call returns no event, whatever the earlier channels yielded.
C12_OtherChannelFailureAborts ==
    WindowsAdapter =>
        \A i \in FailuresOn({"Application", "System"}) :
            /\ \A j \in (i + 1)..Len(calls) : calls[j].op = "EvtClose"
            /\ pc = "done"
            /\ result.events = <<>>

C12_Witness ==
    /\ pc = "done"
    /\ \E i \in FailuresOn({"System"}) : calls[i].ret = "ERROR_ACCESS_DENIED"
    /\ Len(RenderedEvents(Len(calls))) = 2
    /\ result.events = <<>>

\* the native handles opened so far, by name: the query and event handles
\* handed out, and the publisher metadata handles
OpenedHandles ==
    {ToString(h) : h \in 1..nextHandle} \cup
    {calls[i].ret : i \in {j \in CallIndexes("EvtOpenPublisherMetadata") : calls[j].ret # "0"}}

CloseCount(name) == Cardinality({i \in CallIndexes("EvtClose") : calls[i].arg = name})

\* C13: every native handle of the Windows adapter is closed exactly once:
\* only opened handles are closed, none twice, between two steps only the
\* query handle of the running channel is open, and when the call has
\* returned every handle opened has been closed, the unprocessed handles of a
\* batch cut by the cap included.
C13_HandlesClosedOnce ==
    WindowsAdapter =>
        /\ \A i \in CallIndexes("EvtClose") : calls[i].arg \in OpenedHandles
        /\ \A name \in OpenedHandles :
              CloseCount(name) = IF name \in {ToString(h) : h \in openHandles} THEN 0 ELSE 1
        /\ openHandles = IF handle = 0 THEN {} ELSE {handle}
        /\ pc = "done" => openHandles = {}

C13_Witness ==
    /\ pc = "done"
    /\ max_events = Some(1)
    /\ nextHandle = 3
    /\ \E i \in CallIndexes("EvtNext") : calls[i].ret = "2"
    /\ \A i \in CallIndexes("EvtRender") : calls[i].arg = "2"
    /\ CloseCount("3") = 1
    /\ Len(result.events) = 1
----------------------------------------------------------------------------
(* logs/: native records and the text functions the parsers use *)

\* serde_json::Value of a field: a string with its text v (chars holds the
\* characters of a string that is a timestamp), a number with its decimal
\* text, or null
JStr(s) == [t |-> "string", v |-> s, chars |-> <<>>]
JTime(cs) == [t |-> "string", v |-> "timestamp", chars |-> cs]
JNum(s) == [t |-> "number", v |-> s, chars |-> <<>>]
JNull == [t |-> "null", v |-> "", chars |-> <<>>]

\* a JSON object with the given <<key, value>> members; a JSON value that is
\* not an object has no member, like the empty object
Obj(members) ==
    [k \in {m[1] : m \in Range(members)} |->
        (CHOOSE m \in Range(members) : m[1] = k)[2]]

\* value.get(key).and_then(|entry| entry.as_str())
get_string(value, key) ==
    IF key \in DOMAIN value /\ value[key].t = "string" THEN Some(value[key].v) ELSE None

\* values.iter().copied().flatten().find(|value| !value.trim().is_empty())
RECURSIVE pick_value(_)
pick_value(values) ==
    IF values = <<>> THEN None
    ELSE IF IsSome(Head(values)) /\ Trim(Unwrap(Head(values))) # "" THEN Head(values)
    ELSE pick_value(Tail(values))

\* str::contains on a lower-cased text: the keywords of the classifiers that
\* occur in it
KeywordsIn(lower) ==
    CASE lower = "sshd" -> {"ssh"}
      [] lower = "openssh/operational" -> {"ssh"}
      [] lower = "sudo" -> {"sudo"}
      [] lower = "kernel" -> {"kernel"}
      [] lower = "microsoft-windows-kernel-power" -> {"kernel"}
      [] lower = "systemd" -> {"system", "systemd"}
      [] lower = "dbus-daemon" -> {"dbus"}
      [] lower = "udevadm" -> {"udev"}
      [] lower = "auditd" -> {"audit"}
      [] lower = "gnome-system-monitor" -> {"system"}
      [] lower = "system" -> {"system"}
      [] lower = "security" -> {"security"}
      [] lower = "security audit log" -> {"security", "audit"}
      [] lower = "com.apple.securityd" -> {"security"}
      [] lower = "com.apple.authd" -> {"auth"}
      [] lower = "fault" -> {"fault"}
      [] lower = "error" -> {"error"}
      [] lower = "critical error" -> {"critical", "error"}
      [] lower = "warning" -> {"warn"}
      [] OTHER -> {}

\* the keywords in the texts pushed into combined, each followed by ' ': a
\* keyword has no blank, so it occurs in combined iff it occurs in a text
CombinedKeywords(texts) ==
    UNION {KeywordsIn(Lower(Unwrap(texts[i]))) : i \in {j \in 1..Len(texts) : IsSome(texts[j])}}

\* str::parse::<u8>
ParseU8(s) ==
    CASE s = "0" -> Some(0) [] s = "1" -> Some(1) [] s = "2" -> Some(2)
      [] s = "3" -> Some(3) [] s = "4" -> Some(4) [] s = "5" -> Some(5)
      [] s = "6" -> Some(6) [] s = "7" -> Some(7) [] s = "03" -> Some(3)
      [] s = "+4" -> Some(4)
      [] OTHER -> None

\* str::parse::<u32>
ParseU32(s) == IF s = "256" THEN Some(256) ELSE ParseU8(s)

\* str::parse::<i64> and Number::as_i64
ParseI64(s) ==
    CASE s = "9000000" -> Some(9000000)
      [] s = "10500000" -> Some(10500000)
      [] s = "-1" -> Some(0 - 1)
      [] OTHER -> ParseU32(s)

\* map_category of the adapter on the texts it is given
map_category(os, texts) ==
    LET has(k) == k \in CombinedKeywords(texts)
    IN  CASE os = "linux" ->
               IF has("audit") THEN "audit"
               ELSE IF has("auth") \/ has("ssh") \/ has("sudo") \/ has("security")
               THEN "security"
               ELSE IF has("kernel") \/ has("systemd") \/ has("dbus") \/ has("udev")
               THEN "system"
               ELSE "application"
          [] os = "macos" ->
               IF has("audit") THEN "audit"
               ELSE IF has("auth") \/ has("security") THEN "security"
               ELSE IF has("kernel") \/ has("system") THEN "system"
               ELSE "application"
          [] os = "windows" ->
               IF has("security") THEN "security"
               ELSE IF has("system") THEN "system"
               ELSE "application"

\* a mapping that knows the default only
map_severity_DefaultOnly(os, level) == "information"

\* map_severity of the adapter: level is the PRIORITY text (linux), the
\* messageType or level text (macos), the parsed Level (windows), an Option
map_severity(os, level) ==
    CASE os = "linux" ->
           LET p == IF IsSome(level) THEN ParseU8(Unwrap(level)) ELSE None
           IN  IF p = None THEN "information"
               ELSE IF Unwrap(p) \in {0, 1, 2} THEN "critical"
               ELSE IF Unwrap(p) = 3 THEN "error"
               ELSE IF Unwrap(p) = 4 THEN "warning"
               ELSE "information"
      [] os = "macos" ->
           LET words == KeywordsIn(Lower(UnwrapOr(level, "default")))
           IN  IF "fault" \in words \/ "critical" \in words THEN "critical"
               ELSE IF "error" \in words THEN "error"
               ELSE IF "warn" \in words THEN "warning"
               ELSE "information"
      [] os = "windows" ->
           IF level = Some(1) THEN "critical"
           ELSE IF level = Some(2) THEN "error"
           ELSE IF level = Some(3) THEN "warning"
           ELSE "information"

Placeholder(os) == IF os = "windows" THEN "No event message." ELSE "No log message."

sanitize_message_Verbatim(os, message) == message

sanitize_message(os, message) ==
    IF Trim(message) = "" THEN Placeholder(os) ELSE message

\* NormalizedEvent::new: a random id and the time of the call
NormalizedEventNew(os, log_name, category, provider, event_id, severity, message, uuid, now) ==
    [id |-> UuidString(uuid),
     timestamp |-> to_rfc3339(now),
     os |-> os,
     log_name |-> log_name,
     category |-> category,
     provider |-> provider,
     event_id |-> event_id,
     severity |-> severity,
     message |-> message,
     imported |-> FALSE]
----------------------------------------------------------------------------
(* logs/: one native record to one NormalizedEvent *)

\* i64 division and remainder: the quotient is rounded toward zero
TruncDiv(a, b) == IF a >= 0 THEN a \div b ELSE 0 - ((0 - a) \div b)
TruncRem(a, b) == a - b * TruncDiv(a, b)

\* the characters of a native time that is not in the format of to_rfc3339:
\* the Event Log's SystemTime has the digits of the UTC instant and the zone
\* designator Z; the unified log prints the digits of the local time and the
\* zone, "-0800" (the characters '-' and '8' stand for it)
SystemTimeText(t) == to_rfc3339(t) \o <<90>>
LocalTimeText(t, west) == to_rfc3339(t - west) \o <<45, west>>

\* linux parse_journal_timestamp: microseconds since the epoch, a string or
\* a number; a negative remainder cast to u32 is above 1_999_999_999 and
\* timestamp_opt refuses it
parse_journal_timestamp(value) ==
    LET key == IF "__REALTIME_TIMESTAMP" \in DOMAIN value THEN "__REALTIME_TIMESTAMP"
               ELSE "_SOURCE_REALTIME_TIMESTAMP"
    IN  IF key \notin DOMAIN value \/ value[key].t \notin {"string", "number"} THEN None
        ELSE LET micros == ParseI64(value[key].v)
             IN  IF micros = None THEN None
                 ELSE LET secs == TruncDiv(Unwrap(micros), 1000000)
                          rem == TruncRem(Unwrap(micros), 1000000)
                      IN  IF rem < 0 THEN None ELSE Some(to_rfc3339(secs))

\* linux parse_journal_line; line is None when it is not JSON
parse_journal_line(line, uuid, now) ==
    IF line = None THEN None
    ELSE LET value == Unwrap(line)
             message == UnwrapOr(get_string(value, "MESSAGE"), "No log message.")
             identifier == get_string(value, "SYSLOG_IDENTIFIER")
             comm == get_string(value, "_COMM")
             unit == get_string(value, "_SYSTEMD_UNIT")
             transport == get_string(value, "_TRANSPORT")
             log_name == UnwrapOr(pick_value(<<identifier, comm, unit, transport>>),
                                  "journal")
             provider == UnwrapOr(
                 pick_value(<<comm, identifier, get_string(value, "_EXE")>>), "unknown")
             category == map_category(
                 "linux", <<identifier, comm, unit, transport, Some(provider)>>)
             severity == map_severity(
                 "linux",
                 OrElse(get_string(value, "PRIORITY"), get_string(value, "SYSLOG_PRIORITY")))
             event == NormalizedEventNew("linux", log_name, category, provider, None,
                                         severity, sanitize_message("linux", message),
                                         uuid, now)
             timestamp == parse_journal_timestamp(value)
         IN  Some(IF IsSome(timestamp) THEN [event EXCEPT !.timestamp = Unwrap(timestamp)]
                  ELSE event)

\* macos extract_message
extract_message(value) ==
    OrElse(get_string(value, "eventMessage"),
           OrElse(get_string(value, "message"), get_string(value, "formattedMessage")))

\* macos parse_log_line; line is None when it is not JSON
parse_log_line(line, uuid, now) ==
    IF line = None THEN None
    ELSE LET value == Unwrap(line)
             message == UnwrapOr(extract_message(value), "No log message.")
             subsystem == get_string(value, "subsystem")
             category == get_string(value, "category")
             process == get_string(value, "process")
             sender == get_string(value, "sender")
             log_name == UnwrapOr(pick_value(<<subsystem, category, process, sender>>),
                                  "system")
             provider == UnwrapOr(pick_value(<<process, sender, subsystem>>), "unknown")
             severity == map_severity(
                 "macos", OrElse(get_string(value, "messageType"), get_string(value, "level")))
             event_id == IF "eventID" \in DOMAIN value /\ value["eventID"].t = "number"
                         THEN ParseU32(value["eventID"].v) ELSE None
             event == NormalizedEventNew(
                 "macos", log_name,
                 map_category("macos", <<category, subsystem, Some(provider)>>),
                 provider, event_id, severity, sanitize_message("macos", message),
                 uuid, now)
         IN  Some(IF IsSome(get_string(value, "timestamp"))
                  THEN [event EXCEPT !.timestamp = value["timestamp"].chars]
                  ELSE event)

\* windows extract_xml_tag_value: the trimmed content of an element
extract_xml_tag_value(xml, tag) ==
    IF tag \in DOMAIN xml THEN Some(Trim(xml[tag].v)) ELSE None

\* windows format_event_message: the text EvtFormatMessage gives, when the
\* publisher metadata opens and the text is not blank
format_event_message(xml) ==
    IF "FormatMessage" \in DOMAIN xml /\ Trim(xml["FormatMessage"].v) # ""
    THEN Some(Trim(xml["FormatMessage"].v)) ELSE None

\* format!("Data: {}", pairs.join(", "))
FormatData(pairs) ==
    CASE pairs = "Reason=disk full" -> "Data: Reason=disk full"
      [] OTHER -> "Data: ..."

\* windows extract_event_data: "Data: name=value, ..." when a Data element
\* has a value
extract_event_data(xml) ==
    IF "EventData" \in DOMAIN xml /\ Trim(xml["EventData"].v) # ""
    THEN Some(FormatData(Trim(xml["EventData"].v))) ELSE None

\* windows render_event past render_event_xml: xml is None when EvtRender
\* fails, else the elements and attributes of the rendered XML
RenderedEvent(rendered, fallback_channel, uuid, now) ==
    IF rendered = None THEN None
    ELSE LET xml == Unwrap(rendered)
             provider == IF "Provider.Name" \in DOMAIN xml THEN xml["Provider.Name"].v
                         ELSE "Unknown Provider"
             log_name == UnwrapOr(extract_xml_tag_value(xml, "Channel"), fallback_channel)
             tagEventId == extract_xml_tag_value(xml, "EventID")
             event_id == IF IsSome(tagEventId) THEN ParseU32(Unwrap(tagEventId)) ELSE None
             tagLevel == extract_xml_tag_value(xml, "Level")
             level == IF IsSome(tagLevel) THEN ParseU32(Unwrap(tagLevel)) ELSE None
             severity == map_severity("windows", level)
             category == map_category("windows", <<Some(log_name)>>)
             message == UnwrapOr(OrElse(format_event_message(xml), extract_event_data(xml)),
                                 "No event message.")
             event == NormalizedEventNew("windows", log_name, category, provider, event_id,
                                         severity, sanitize_message("windows", message),
                                         uuid, now)
         IN  Some(IF "TimeCreated.SystemTime" \in DOMAIN xml
                  THEN [event EXCEPT !.timestamp = xml["TimeCreated.SystemTime"].chars]
                  ELSE event)
----------------------------------------------------------------------------
(* The parsers as a state machine: one native record or crash file, parsed once *)

\* texts a record names its origin with
NameProbes ==
    {"sshd", "sudo", "kernel", "systemd", "dbus-daemon", "udevadm", "auditd",
     "gnome-system-monitor", "cron", "com.apple.securityd", "com.apple.authd",
     "Security Audit Log", "Security", "System", "Application",
     "OpenSSH/Operational", "Microsoft-Windows-Kernel-Power"}

\* the values of a field that holds a message
MessageProbes ==
    {JStr("disk full"), JStr(" disk full "), JStr(""), JStr("  "), JNum("7"), JNull}

\* the values of a journal PRIORITY and of a Windows Level
PriorityProbes ==
    {JStr(p) : p \in {"0", "1", "2", "3", "4", "5", "6", "7", "03", "+4", "256", "err", ""}}
        \cup {JNum("3"), JNull}

\* the values of a unified-log messageType
LevelProbes ==
    {JStr(l) : l \in {"Fault", "Error", "Default", "Info", "Critical Error", "WARNING",
                      "debug", ""}} \cup {JNum("3")}

\* the values of a journal __REALTIME_TIMESTAMP
MicrosProbes ==
    {JStr("9000000"), JNum("10500000"), JStr("7"), JStr("-1"), JStr("soon"), JNull}

\* a record with the members of base, those of extra replacing them
With(base, extra) ==
    LET keys == {m[1] : m \in Range(extra)}
    IN  Obj(SelectSeq(base, LAMBDA m : m[1] \notin keys) \o extra)

JournalBase ==
    <<<<"MESSAGE", JStr("disk full")>>, <<"PRIORITY", JStr("6")>>,
      <<"_COMM", JStr("cron")>>, <<"__REALTIME_TIMESTAMP", JStr("9000000")>>>>

\* the lines journalctl --output=json may print, and lines that are not JSON
JournalLines ==
    {None}
    \cup {Some(With(JournalBase, <<<<"SYSLOG_IDENTIFIER", JStr(n)>>>>)) : n \in NameProbes}
    \cup {Some(With(JournalBase, <<<<"_COMM", JStr("  ")>>, <<"_SYSTEMD_UNIT", JStr(n)>>>>)) :
            n \in NameProbes}
    \cup {Some(With(JournalBase, <<<<"MESSAGE", m>>>>)) : m \in MessageProbes}
    \cup {Some(With(JournalBase, <<<<"PRIORITY", q>>>>)) : q \in PriorityProbes}
    \cup {Some(With(JournalBase, <<<<"PRIORITY", JNum("3")>>, <<"SYSLOG_PRIORITY", q>>>>)) :
            q \in PriorityProbes}
    \cup {Some(With(JournalBase, <<<<"__REALTIME_TIMESTAMP", u>>>>)) : u \in MicrosProbes}
    \cup {Some(Obj(<<<<"_SOURCE_REALTIME_TIMESTAMP", u>>>>)) : u \in MicrosProbes}
    \cup {Some(Obj(<<>>))}

UnifiedBase ==
    <<<<"eventMessage", JStr("disk full")>>, <<"messageType", JStr("Default")>>,
      <<"process", JStr("cron")>>, <<"timestamp", JTime(LocalTimeText(9, 8))>>>>

\* the lines log show --style ndjson may print, and lines that are not JSON
UnifiedLogLines ==
    {None}
    \cup {Some(With(UnifiedBase, <<<<"subsystem", JStr(n)>>>>)) : n \in NameProbes}
    \cup {Some(With(UnifiedBase, <<<<"category", JStr(n)>>>>)) : n \in NameProbes}
    \cup {Some(With(UnifiedBase, <<<<"process", JStr(n)>>>>)) : n \in NameProbes}
    \cup {Some(With(UnifiedBase, <<<<"eventMessage", m>>>>)) : m \in MessageProbes}
    \cup {Some(With(UnifiedBase, <<<<"eventMessage", JNull>>, <<"message", m>>>>)) :
            m \in MessageProbes}
    \cup {Some(With(UnifiedBase, <<<<"messageType", l>>>>)) : l \in LevelProbes}
    \cup {Some(With(UnifiedBase, <<<<"messageType", JNull>>, <<"level", l>>>>)) :
            l \in LevelProbes}
    \cup {Some(With(UnifiedBase, <<<<"timestamp", u>>>>)) :
            u \in {JTime(LocalTimeText(10, 8)), JNum("9"), JNull}}
    \cup {Some(With(UnifiedBase, <<<<"eventID", JNum("7")>>>>))}
    \cup {Some(Obj(<<>>))}

EventXmlBase ==
    <<<<"Provider.Name", JStr("cron")>>, <<"Channel", JStr("Application")>>,
      <<"EventID", JStr("7")>>, <<"Level", JStr("4")>>,
      <<"TimeCreated.SystemTime", JTime(SystemTimeText(9))>>,
      <<"FormatMessage", JStr("disk full")>>>>

\* what EvtRender may give for an event: nothing, or the XML of the event
RenderedXmls ==
    {None}
    \cup {Some(With(EventXmlBase, <<<<"Channel", JStr(n)>>>>)) : n \in NameProbes}
    \cup {Some(With(EventXmlBase, <<<<"Channel", JStr(" System ")>>>>))}
    \cup {Some(With(EventXmlBase, <<<<"Level", q>>>>)) : q \in PriorityProbes \ {JNull}}
    \cup {Some(With(EventXmlBase, <<<<"FormatMessage", m>>>>)) :
            m \in {JStr(" disk full "), JStr(""), JStr("  ")}}
    \cup {Some(With(EventXmlBase, <<<<"FormatMessage", JStr("")>>, <<"EventData", d>>>>)) :
            d \in {JStr("Reason=disk full"), JStr("")}}
    \cup {Some(Obj(<<<<"Level", JStr("2")>>>>))}

\* the contents a .wer file of the parsed host may have
WerVariants == {1, 2, 3, 4, 5}

\* the crash files of the parsed host: every file present
ParsedFileStates == [kind : {"file"}, mtime : {9}, content : WerVariants]

\* the parser of import_*_crashes that takes the path
ParseCrashPath(path, uuid, now) ==
    CASE hostOs = "windows" ->
            IF Matcher("wer", path) THEN parse_windows_wer(path, uuid, now)
            ELSE parse_windows_dump(path, uuid, now)
      [] hostOs = "macos" -> parse_macos_report(path, uuid, now)
      [] hostOs = "linux" -> parse_linux_report(path, uuid, now)

\* the files import_*_crashes hands to a parser
ParsedPaths ==
    {p \in FilesOf(hostOs) :
        /\ FsKind(p) = "file"
        /\ CASE hostOs = "windows" -> Matcher("wer", p) \/ Matcher("dump", p)
             [] hostOs = "macos" -> Matcher("macos", p)
             [] hostOs = "linux" -> Matcher("linux", p)}

\* no import is running and no crash is stored
CrashIdle ==
    /\ crashes = <<>>
    /\ imported = <<>>
    /\ candidates = <<>>
    /\ lastLimit = 0
    /\ phase = "idle"
    /\ rounds = 0
    /\ usedLimits = {}
    /\ built = {}
    /\ firstRows = {}

InitParse ==
    /\ target \in {"journal", "unifiedlog", "eventlog", "crashfile"}
    /\ produced = None
    /\ CASE target = "journal" -> native \in JournalLines /\ hostOs = "linux"
         [] target = "unifiedlog" -> native \in UnifiedLogLines /\ hostOs = "macos"
         [] target = "eventlog" -> native \in RenderedXmls /\ hostOs = "windows"
         [] target = "crashfile" -> native = None /\ hostOs \in {"windows", "macos", "linux"}
    /\ programData = None
    /\ IF target = "crashfile"
       THEN \E st \in [1..2 -> ParsedFileStates] : fs = FileSystem(hostOs, st)
       ELSE fs = FileSystem(hostOs, [i \in 1..2 |-> MissingFile])
    /\ CrashIdle
    /\ CollectorIdle
    /\ AuxIdle

\* linux: collect_events_range hands a line of journalctl to parse_journal_line
ParseJournalLine ==
    /\ target = "journal"
    /\ produced = None
    /\ \E uuid \in 0..MaxUuid, now \in Nows :
          produced' = parse_journal_line(native, uuid, now)
    /\ produced' # None
    /\ UNCHANGED <<target, native, crashVars, collectVars, auxVars>>

\* macos: collect_events_range hands a line of log show to parse_log_line
ParseLogLine ==
    /\ target = "unifiedlog"
    /\ produced = None
    /\ \E uuid \in 0..MaxUuid, now \in Nows :
          produced' = parse_log_line(native, uuid, now)
    /\ produced' # None
    /\ UNCHANGED <<target, native, crashVars, collectVars, auxVars>>

\* windows: query_channel hands an event of channel to render_event
RenderEvent ==
    /\ target = "eventlog"
    /\ produced = None
    /\ \E uuid \in 0..MaxUuid, now \in Nows, channel \in Range(DEFAULT_CHANNELS) :
          produced' = RenderedEvent(native, channel, uuid, now)
    /\ produced' # None
    /\ UNCHANGED <<target, native, crashVars, collectVars, auxVars>>

\* import_*_crashes hands a scanned file to its parser
ParseCrashFile ==
    /\ target = "crashfile"
    /\ produced = None
    /\ \E path \in ParsedPaths, uuid \in 0..MaxUuid, now \in Nows :
          produced' = Some(ParseCrashPath(path, uuid, now))
    /\ UNCHANGED <<target, native, crashVars, collectVars, auxVars>>

NextParse == ParseJournalLine \/ ParseLogLine \/ RenderEvent \/ ParseCrashFile

SpecParse == InitParse /\ [][NextParse]_vars
----------------------------------------------------------------------------
(* Properties of the parsers (SpecParse) *)

EventTargets == {"journal", "unifiedlog", "eventlog"}

\* an event has been produced from the native record
EventProduced == target \in EventTargets /\ produced # None

\* a crash record has been produced from a crash file
CrashProduced == target = "crashfile" /\ produced # None

\* the texts the adapter hands to its category classifier
ClassifierInputs ==
    LET value == Unwrap(native)
        event == Unwrap(produced)
    IN  CASE target = "journal" ->
               <<get_string(value, "SYSLOG_IDENTIFIER"), get_string(value, "_COMM"),
                 get_string(value, "_SYSTEMD_UNIT"), get_string(value, "_TRANSPORT"),
                 Some(event.provider)>>
          [] target = "unifiedlog" ->
               <<get_string(value, "category"), get_string(value, "subsystem"),
                 Some(event.provider)>>
          [] target = "eventlog" -> <<Some(event.log_name)>>

\* the ordered keyword rule: audit, then security, then system, then application
KeywordRule(words) ==
    IF "audit" \in words THEN "audit"
    ELSE IF words \cap {"auth", "ssh", "sudo", "security"} # {} THEN "security"
    ELSE IF words \cap {"kernel", "systemd", "dbus", "udev", "system"} # {} THEN "system"
    ELSE "application"

\* C14: the category of every event an adapter produces is the one the
\* ordered keyword rule gives on the lower-cased text of the classifier's
\* inputs: audit if it contains "audit", else security if it contains auth,
\* ssh, sudo or security, else system if it contains kernel, systemd, dbus,
\* udev or system, else application.
C14_UniformKeywordRule ==
    EventProduced =>
        Unwrap(produced).category = KeywordRule(CombinedKeywords(ClassifierInputs))

\* the classifier is given the text among its inputs
ClassifierGiven(text) ==
    \E i \in 1..Len(ClassifierInputs) : ClassifierInputs[i] = Some(text)

\* C15: an event whose classifier was given the name "Security Audit Log" has
\* the category "security", whichever adapter produced it and whatever uuid
\* and time the call drew.
C15_SecurityAuditLogIsSecurity ==
    (EventProduced /\ ClassifierGiven("Security Audit Log")) =>
        Unwrap(produced).category = "security"

Severities == {"critical", "error", "warning", "information"}

\* the native severity text the adapter reads from the record
SeverityInput ==
    LET value == Unwrap(native)
    IN  CASE target = "journal" ->
               OrElse(get_string(value, "PRIORITY"), get_string(value, "SYSLOG_PRIORITY"))
          [] target = "unifiedlog" ->
               OrElse(get_string(value, "messageType"), get_string(value, "level"))
          [] target = "eventlog" -> extract_xml_tag_value(value, "Level")

\* the decimal texts of the model that denote n
Denotes(n) ==
    CASE n = 0 -> {Some("0")}
      [] n = 1 -> {Some("1")}
      [] n = 2 -> {Some("2")}
      [] n = 3 -> {Some("3"), Some("03")}
      [] n = 4 -> {Some("4"), Some("+4")}

\* C16: every event's severity is one of critical, error, warning,
\* information, and it is the one the adapter's table gives: journal
\* priority 0, 1, 2 critical, 3 error, 4 warning, anything else information;
\* a unified-log level containing fault or critical is critical, else
\* containing error is error, else containing warn is warning, else
\* information; Windows level 1 critical, 2 error, 3 warning, anything else
\* information.
C16_SeverityTotal ==
    EventProduced =>
        LET sev == Unwrap(produced).severity
            in == SeverityInput
            words == IF in = None THEN {} ELSE KeywordsIn(Lower(Unwrap(in)))
        IN  /\ sev \in Severities
            /\ target = "journal" =>
                  sev = IF in \in Denotes(0) \cup Denotes(1) \cup Denotes(2) THEN "critical"
                        ELSE IF in \in Denotes(3) THEN "error"
                        ELSE IF in \in Denotes(4) THEN "warning"
                        ELSE "information"
            /\ target = "unifiedlog" =>
                  sev = IF words \cap {"fault", "critical"} # {} THEN "critical"
                        ELSE IF "error" \in words THEN "error"
                        ELSE IF "warn" \in words THEN "warning"
                        ELSE "information"
            /\ target = "eventlog" =>
                  sev = IF in \in Denotes(1) THEN "critical"
                        ELSE IF in \in Denotes(2) THEN "error"
                        ELSE IF in \in Denotes(3) THEN "warning"
                        ELSE "information"

\* a journal record of priority 3 became an event of severity error
C16_Witness ==
    /\ EventProduced
    /\ target = "journal"
    /\ SeverityInput = Some("3")
    /\ Unwrap(produced).severity = "error"

\* the message text the adapter finds in the native record, if any
NativeMessage ==
    LET value == Unwrap(native)
    IN  CASE target = "journal" -> get_string(value, "MESSAGE")
          [] target = "unifiedlog" -> extract_message(value)
          [] target = "eventlog" ->
               OrElse(format_event_message(value), extract_event_data(value))

\* the record has no message, one that is not a string, or a blank one
NativeMessageBlank == NativeMessage = None \/ Trim(Unwrap(NativeMessage)) = ""

\* the text of a summary: the concatenation of its parts is not empty
NonEmptyText(parts) == \E i \in 1..Len(parts) : parts[i] # ""

\* C17: every event produced has a message that is not blank, the
\* adapter's placeholder when the native record has no usable message, and
\* every crash record produced has a summary that is not empty.
C17_NeverEmpty ==
    /\ EventProduced =>
          /\ Trim(Unwrap(produced).message) # ""
          /\ NativeMessageBlank =>
                Unwrap(produced).message = Placeholder(Unwrap(produced).os)
    /\ CrashProduced => NonEmptyText(Unwrap(produced).summary)

\* a record whose message is whitespace only became an event with the placeholder
C17_Witness ==
    /\ EventProduced
    /\ NativeMessage = Some("  ")
    /\ Unwrap(produced).message = "No log message."

\* a crash record has been produced from a .wer file
WerProduced == CrashProduced /\ Unwrap(produced).source = "WER"

\* the key=value fields of the .wer file the record was produced from
WerFields == Fields(read_lines_limited(Unwrap(Unwrap(produced).raw_path), 600, 512 * 1024))

\* the signature-value keys a report of the model carries
SigKeys == {"Sig[0].Value", "Sig[1].Value", "Sig[2].Value"}

\* C18: the crash type of a .wer record is the first value that is not blank
\* among FriendlyEventName, ProblemType, two signature-value keys and
\* EventType, in that order.
C18_TwoSignatureKeys ==
    WerProduced =>
        \E s1 \in SigKeys : \E s2 \in SigKeys \ {s1} :
            LET first == pick_map_value(
                    WerFields, <<"FriendlyEventName", "ProblemType", s1, s2, "EventType">>)
            IN  first # None => Unwrap(produced).crash_type = Unwrap(first)

\* C19: the summary of a .wer record is "<crashType>: <X>" where X is the
\* application name if one is extracted, else the description, else the file
\* name; suspectedComponent is the file-name portion of the application
\* string, the string itself when it has none, absent when no application
\* was extracted; FriendlyEventName=Application Error with
\* AppName=contoso.exe gives "Application Error",
\* "Application Error: contoso.exe" and "contoso.exe".
C19_WerSummary ==
    WerProduced =>
        LET crash == Unwrap(produced)
            app == pick_map_value(
                WerFields, <<"AppName", "FaultModuleName", "Fault Module Name", "AppPath">>)
            desc == pick_map_value(WerFields, <<"Description", "ProblemSignatures">>)
            x == IF app # None THEN Unwrap(app)
                 ELSE IF desc # None THEN Unwrap(desc)
                 ELSE Unwrap(FileNameStr(Unwrap(crash.raw_path)))
        IN  /\ crash.summary = <<crash.crash_type, ": ", x>>
            /\ crash.suspected_component =
                  IF app = None THEN None
                  ELSE IF Basename(Unwrap(app)) # None THEN Basename(Unwrap(app))
                  ELSE app
            /\ ("FriendlyEventName" \in DOMAIN WerFields /\ "AppName" \in DOMAIN WerFields
                 /\ WerFields["FriendlyEventName"] = "Application Error"
                 /\ WerFields["AppName"] = "contoso.exe") =>
                  /\ crash.crash_type = "Application Error"
                  /\ crash.summary = <<"Application Error", ": ", "contoso.exe">>
                  /\ crash.suspected_component = Some("contoso.exe")

\* the report of the example has been parsed
C19_Witness ==
    /\ WerProduced
    /\ "AppName" \in DOMAIN WerFields
    /\ WerFields["AppName"] = "contoso.exe"
    /\ Unwrap(produced).summary = <<"Application Error", ": ", "contoso.exe">>

\* the text is a UTC instant in ISO-8601: the format of to_rfc3339, or the
\* same digits with the designator Z
IsUtcIso8601(text) ==
    \E t \in 0..99 : text = to_rfc3339(t) \/ text = SystemTimeText(t)

\* C20: the timestamp of every event produced, by any adapter, is a UTC
\* ISO-8601 instant; no adapter copies a native timestamp text of another
\* format into the event.
C20_TimestampUtcIso8601 ==
    EventProduced => IsUtcIso8601(Unwrap(produced).timestamp)
----------------------------------------------------------------------------
(* crash.rs: scan_files and read_lines_limited, one loop iteration per step *)

\* where a symbolic link of the scanned tree points
LinkTarget(path) ==
    CASE path = "/var/crash/old/up" -> VarCrash
      [] path = "/var/crash/old" -> Coredump
      [] path = "/var/crash/latest.crash" -> "/var/crash/other.Crash"
      [] OTHER -> path

\* the file a path names once a final symbolic link is followed
Resolve(path) == IF FsKind(path) = "symlink" THEN LinkTarget(path) ELSE path

\* fs::metadata: the kind of the file the path resolves to
metadata(path) == FsKind(Resolve(path))

\* fs::symlink_metadata: the kind of the entry itself, "symlink" for a link
symlink_metadata(path) == FsKind(path)

\* fs::read_dir(..).flatten(): the entries of the directory the path names;
\* a directory that cannot be listed ("locked") gives Err
read_dir(path) == ReadDir(Resolve(path))

\* scan_files keeping the matches in the order found
ScanResult_Unsorted(found, cap) ==
    LET ranked == Truncate(found, cap)
    IN  [i \in 1..Len(ranked) |-> ranked[i].path]

\* scan_files after the loop: sort_by mtime descending, truncate, map to paths
ScanResult(found, cap) ==
    LET ranked == Truncate(StableSortDesc(found), cap)
    IN  [i \in 1..Len(ranked) |-> ranked[i].path]

\* one iteration of the while-let loop of scan_files
ScanVisit(todo, found, tag) ==
    LET path == todo[Len(todo)]
        rest == SubSeq(todo, 1, Len(todo) - 1)
        kind == symlink_metadata(path)
    IN  IF kind = "missing" THEN [stack |-> rest, matches |-> found]
        ELSE IF kind = "locked" THEN [stack |-> rest, matches |-> found]
        ELSE IF kind = "dir" THEN [stack |-> rest \o read_dir(path), matches |-> found]
        ELSE IF kind # "file" \/ ~Matcher(tag, path) THEN [stack |-> rest, matches |-> found]
        ELSE [stack |-> rest,
              matches |-> Append(found, [path |-> path, key |-> <<fs[path].mtime>>])]

\* the roots and the matcher of import_linux_crashes
ScanRoots == <<VarCrash, Coredump>>

\* the caps a caller passes
ScanCaps == {1, 2, 4}

\* the limits a caller of read_lines_limited passes
LineLimits == {0, 1, 2, 400}
ByteLimits == {0, 30, 256 * 1024}

File(t, v) == [kind |-> "file", mtime |-> t, content |-> v]
Entry(kind) == [kind |-> kind, mtime |-> 0, content |-> 1]

\* the trees scanned: a directory that may not be listable, a subdirectory
\* that may be a link to another subtree, a link back to an ancestor, a link
\* to a file, files of several ages
ScanTrees ==
    {[p \in {VarCrash, Coredump, "/var/crash/a<FF>.crash", "/var/crash/other.Crash",
             "/var/crash/notes.txt", "/var/crash/old", "/var/crash/old/b.crash",
             "/var/crash/old/up", "/var/crash/latest.crash",
             "/var/lib/systemd/coredump/core.bash.1000"} |->
        CASE p = VarCrash -> Entry(t.top)
          [] p = Coredump -> Entry(t.core)
          [] p = "/var/crash/a<FF>.crash" -> t.a
          [] p = "/var/crash/other.Crash" -> File(10, 1)
          [] p = "/var/crash/notes.txt" -> File(8 + MaxTime, 1)
          [] p = "/var/crash/old" -> Entry(t.old)
          [] p = "/var/crash/old/b.crash" -> File(t.b, 1)
          [] p = "/var/crash/old/up" -> Entry("symlink")
          [] p = "/var/crash/latest.crash" -> t.latest
          [] p = "/var/lib/systemd/coredump/core.bash.1000" -> File(9, 1)] :
     t \in [top : {"dir", "locked"}, core : {"dir", "missing"},
            a : {File(m, v) : m \in Times, v \in {1, 2}},
            old : {"dir", "symlink"}, b : Times,
            latest : {Entry("symlink"), File(8 + MaxTime, 2)}]}

InitScan ==
    /\ hostOs = "linux"
    /\ programData = None
    /\ fs \in ScanTrees
    /\ ScanIdle
    /\ StoreIdle
    /\ LoggerIdle
    /\ CrashIdle
    /\ CollectorIdle
    /\ ParserIdle

\* import_linux_crashes calls scan_files
ScanStart ==
    /\ scanPc = "idle"
    /\ \E cap \in ScanCaps : scanCap' = cap
    /\ scanStack' = ScanRoots
    /\ scanPc' = "loop"
    /\ UNCHANGED <<scanMatches, scanned, popped, readCall>>
    /\ UNCHANGED <<crashVars, collectVars, parseVars, storeVars, logVars>>

\* while let Some(path) = stack.pop()
ScanStep ==
    /\ scanPc = "loop"
    /\ scanStack # <<>>
    /\ Len(scanMatches) < MaxFound
    /\ \E r \in {ScanVisit(scanStack, scanMatches, "linux")} :
          /\ scanStack' = r.stack
          /\ scanMatches' = r.matches
    /\ popped' = popped \cup {scanStack[Len(scanStack)]}
    /\ UNCHANGED <<scanCap, scanPc, scanned, readCall>>
    /\ UNCHANGED <<crashVars, collectVars, parseVars, storeVars, logVars>>

\* the stack is empty: sort, truncate, return
ScanFinish ==
    /\ scanPc = "loop"
    /\ scanStack = <<>>
    /\ scanned' = ScanResult(scanMatches, scanCap)
    /\ scanPc' = "done"
    /\ UNCHANGED <<scanCap, scanStack, scanMatches, popped, readCall>>
    /\ UNCHANGED <<crashVars, collectVars, parseVars, storeVars, logVars>>

\* a parser reads a scanned file with read_lines_limited
ReadLines ==
    /\ scanPc = "done"
    /\ readCall = None
    /\ \E path \in Range(scanned), max_lines \in LineLimits, max_bytes \in ByteLimits :
          readCall' = Some([path |-> path, max_lines |-> max_lines, max_bytes |-> max_bytes,
                            lines |-> read_lines_limited(path, max_lines, max_bytes)])
    /\ UNCHANGED <<scanCap, scanStack, scanMatches, scanPc, scanned, popped>>
    /\ UNCHANGED <<crashVars, collectVars, parseVars, storeVars, logVars>>

NextScan == ScanStart \/ ScanStep \/ ScanFinish \/ ReadLines

SpecScan == InitScan /\ [][NextScan]_vars

\* the return of scan_files as a step of the control position: the only step
\* of NextScan that takes scanPc from "loop" to "done" is ScanFinish, and it
\* is enabled exactly when the stack is empty
ScanReturn == scanPc = "loop" /\ scanStack = <<>> /\ scanPc' = "done"

\* scan_files is sequential code: the loop takes its next iteration while the
\* stack is not empty, and the function returns once it is
SpecScanFair == SpecScan /\ WF_vars(ScanStep) /\ WF_scanPc(ScanReturn)
----------------------------------------------------------------------------
(* Properties of the bounded file utilities (SpecScan, SpecScanFair) *)

\* the path is a root, or an entry of a real, listable directory that is
\* itself reached that way
RECURSIVE RealPath(_)
RealPath(p) ==
    \/ p \in Range(ScanRoots)
    \/ \E d \in DOMAIN fs : p \in Range(ReadDir(d)) /\ FsKind(d) = "dir" /\ RealPath(d)

\* the regular files under the roots that the predicate accepts
Wanted == {p \in DOMAIN fs : FsKind(p) = "file" /\ Matcher("linux", p) /\ RealPath(p)}

\* C21: scan_files returns at most cap paths, as many as the cap and the
\* tree allow; each is a regular file the predicate accepts, reached through
\* real directories only; the paths are in non-increasing mtime order and no
\* matching file left out is newer than a returned one; a directory that
\* cannot be listed or a missing root does not fail the scan.
C21_ScanBoundedAndRanked ==
    scanPc = "done" =>
        /\ Len(scanned) = Min(scanCap, Cardinality(Wanted))
        /\ \A i \in 1..Len(scanned) : scanned[i] \in Wanted
        /\ \A i \in 1..Len(scanned), j \in 1..Len(scanned) :
              i < j => fs[scanned[i]].mtime >= fs[scanned[j]].mtime
        /\ \A q \in Wanted \ Range(scanned), i \in 1..Len(scanned) :
              fs[q].mtime <= fs[scanned[i]].mtime

\* a scan that met a link to a file and a link to a directory returned the
\* cap's worth of a larger set of matching files
C21_Witness ==
    /\ scanPc = "done"
    /\ {"/var/crash/latest.crash", "/var/crash/old"} \subseteq popped
    /\ FsKind("/var/crash/latest.crash") = "symlink"
    /\ FsKind("/var/crash/old") = "symlink"
    /\ Len(scanned) = 2
    /\ Cardinality(Wanted) > 2

\* the cumulative byte length of lines
RECURSIVE TotalBytes(_)
TotalBytes(ls) == IF ls = <<>> THEN 0 ELSE Head(ls).len + TotalBytes(Tail(ls))

C26_ScanTerminates ==
    /\ [](\A p \in popped : RealPath(p))
    /\ (scanPc = "loop") ~> (scanPc = "done")

\* a scan that met the link back to its root and a link to the other
\* subtree has returned
C26_Witness ==
    /\ scanPc = "done"
    /\ "/var/crash/old/up" \in popped
    /\ FsKind("/var/crash/old/up") = "symlink"
    /\ LinkTarget("/var/crash/old/up") \in Range(ScanRoots)
    /\ FsKind("/var/crash/latest.crash") = "symlink"
----------------------------------------------------------------------------
(* Further properties of the live event collectors (SpecCollect) *)

\* the channels of the EvtQuery calls made so far, in call order
RECURSIVE QueriedChannels(_)
QueriedChannels(n) ==
    IF n = 0 THEN <<>>
    ELSE IF calls[n].op = "EvtQuery" THEN Append(QueriedChannels(n - 1), calls[n].arg)
         ELSE QueriedChannels(n - 1)

\* the channels the caller's values name, and where each is first named
NamedChannels ==
    IF channels = None THEN {}
    ELSE {Unwrap(ChannelOf(Lower(Trim(Unwrap(channels)[i])))) :
            i \in {j \in DOMAIN Unwrap(channels) : IsSome(ChannelOf(Lower(Trim(Unwrap(channels)[j]))))}}

FirstNamed(c) ==
    CHOOSE i \in DOMAIN Unwrap(channels) :
        /\ ChannelOf(Lower(Trim(Unwrap(channels)[i]))) = Some(c)
        /\ \A j \in 1..(i - 1) : ChannelOf(Lower(Trim(Unwrap(channels)[j]))) # Some(c)

\* the selection as the contract words it: each known channel once, in the
\* order of first mention, and the three default channels when none is named
SelectionOrder ==
    IF NamedChannels = {} THEN <<"Application", "System", "Security">>
    ELSE CHOOSE sel \in [1..Cardinality(NamedChannels) -> NamedChannels] :
            \A i, j \in DOMAIN sel : i < j => FirstNamed(sel[i]) < FirstNamed(sel[j])

\* C25: the Windows adapter queries the selected channels one at a time and
\* in selection order (unknown names dropped, duplicates removed, the three
\* defaults for an empty selection); a channel is queried only while the
\* running total is below max, it gets the budget max minus that total, it
\* has the only open query, and a call that ends below max without a hard
\* failure has queried every selected channel.
C25_ChannelsInOrderWithinBudget ==
    (WindowsAdapter /\ pc # "start" /\ ContractCap > 0) =>
        LET queried == QueriedChannels(Len(calls))
        IN  /\ Len(queried) <= Len(SelectionOrder)
            /\ queried = SubSeq(SelectionOrder, 1, Len(queried))
            /\ pc = "next" =>
                  /\ Len(queried) = chan
                  /\ Len(events) < ContractCap
                  /\ chMax = ContractCap - Len(events)
                  /\ Len(chEvents) < chMax
                  /\ openHandles = {handle}
            /\ pc = "channel" => Len(queried) = chan - 1 /\ openHandles = {}
            /\ Len(events) >= ContractCap => pc \in {"channel", "done"}
            /\ (pc = "done" /\ Len(result.events) < ContractCap
                    /\ FailuresOn({"Application", "System"}) = {}) =>
                  queried = SelectionOrder

\* a call that named System twice, an unknown channel and Security, with a
\* cap of two: System gave one event, Security was queried next with the
\* remaining budget of one and had nothing
C25_Witness ==
    /\ WindowsAdapter
    /\ pc = "done"
    /\ channels = Some(<<" System ", "bogus", "Security", "system">>)
    /\ QueriedChannels(Len(calls)) = <<"System", "Security">>
    /\ max_events = Some(2)
    /\ chMax = 1
    /\ Len(result.events) = 1
    /\ calls[Len(calls) - 1].ret = "ERROR_NO_MORE_ITEMS"

\* the warnings of the result that carry the text
WarningsOf(text) == {i \in DOMAIN result.warnings : result.warnings[i].text = text}

\* a subprocess call returned events although lines were malformed or
\* unreadable, or although the subprocess ended with a non-zero status: the
\* result has a warning for each
SubprocessDegradationReported ==
    (SubprocessAdapter /\ pc = "done" /\ result.events # <<>>) =>
        /\ CountLines("malformed") > 0 => WarningsOf(ParseFailureText(hostOs)) # {}
        /\ CountLines("unreadable") > 0 => result.warnings # <<>>
        /\ WaitFailedWith({"failure"}) =>
              ExitMessage(hostOs, "failure") \in Range(result.warnings)

\* C24: whenever a collection call returns events although some input was
\* unusable (malformed lines, a non-zero subprocess exit after partial
\* output, on Windows a Security channel refused with access denied while
\* other channels yielded events), the result carries the events and at
\* least one warning that describes the degradation.
C24_PartialDegradationReported ==
    /\ SubprocessDegradationReported
    /\ (WindowsAdapter /\ pc = "done" /\ result.events # <<>> /\ SecurityDenied # {}) =>
          result.warnings # <<>>

\* the call stopped reading because the cap was reached: it killed the child
CapKill == CallIndexes("kill") # {}

\* C28: a journal or unified-log call that stopped because the cap was
\* reached, that read valid lines only, and whose subprocess did not fail on
\* its own (the wait returned, and not with the subprocess's own non-zero
\* exit), returns no warning and no error: the collector's own kill is not
\* reported, whether it lands before or after the subprocess exits.
C28_CapKillNotReported ==
    (SubprocessAdapter /\ pc = "done" /\ CapKill
        /\ (\A i \in DOMAIN stream : stream[i] = "valid")
        /\ WaitFailedWith({"success", "signal"})) =>
            /\ result.warnings = <<>>
            /\ result.errors = <<>>

\* the same call when the subprocess had exited by itself before the kill
CapKillAfterExitNotReported ==
    (SubprocessAdapter /\ pc = "done" /\ CapKill
        /\ (\A i \in DOMAIN stream : stream[i] = "valid")
        /\ WaitFailedWith({"success"})) =>
            /\ result.warnings = <<>>
            /\ result.errors = <<>>

\* C30: the subprocess collectors always return: whatever the mix of valid,
\* blank, malformed and unreadable lines, a read that keeps failing
\* included, a call that started reaches its return.
C30_CollectorReturns == (SubprocessAdapter /\ pc = "start") ~> (pc = "done")

\* every call whose reads do not keep failing returns
ReturnsUnlessBroken == (SubprocessAdapter /\ pc = "start") ~> (pc = "done" \/ Broken)
----------------------------------------------------------------------------
(* db.rs: the events table, transactions and the correlation query *)

\* params![...] of save_local_events: the columns of one row; imported is
\* the literal 0 of the VALUES list
EventRow(event) == [event EXCEPT !.imported = 0]

\* INSERT INTO events ... ON CONFLICT(id) DO UPDATE SET <every column but
\* id and imported>
UpsertEvent(table, row) ==
    IF \E i \in 1..Len(table) : table[i].id = row.id
    THEN [i \in 1..Len(table) |->
            IF table[i].id = row.id THEN [row EXCEPT !.imported = table[i].imported]
            ELSE table[i]]
    ELSE Append(table, row)

\* tx.execute(...) of the save call on the table
UpsertRow(kind, table, record) ==
    IF kind = "events" THEN UpsertEvent(table, EventRow(record))
    ELSE UpsertCrash(table, CrashRow(record))

AfterFailure_KeepsWrites(table, work) == work

\* the ? of a failed tx.execute or tx.commit returns from the call and drops
\* the transaction, which rolls it back: the table is what it was
AfterFailure(table, work) == table

\* julianday() works in days, in a double: near today's dates the unit in
\* the last place is 2^-31 day; the model keeps 2^-16 day
UlpsPerDay == 65536

\* the instant a timestamp text denotes to SQLite, in seconds: the RFC 3339
\* form of to_rfc3339, the same with Z; a local time with an offset written
\* without a colon is no time value
SqlInstant(text) ==
    IF Len(text) = 2 \/ (Len(text) = 3 /\ text[3] = 90) THEN Some(text[1] * 10 + text[2])
    ELSE None

\* julianday(text): NULL, or the day number rounded to the nearest double
julianday(text) ==
    IF SqlInstant(text) = None THEN None
    ELSE Some((Unwrap(SqlInstant(text)) * UlpsPerDay + 43200) \div 86400)

\* ABS((julianday(e.timestamp) - julianday(c.timestamp)) * 24 * 60), in
\* units of 1/UlpsPerDay minute; NULL when a julianday is NULL
AbsMinutes(e, c) ==
    IF julianday(e.timestamp) = None \/ julianday(c.timestamp) = None THEN None
    ELSE LET d == (Unwrap(julianday(e.timestamp)) - Unwrap(julianday(c.timestamp))) * 24 * 60
         IN  Some(IF d < 0 THEN 0 - d ELSE d)

InWindow_NoOsFilter(e, c, window_minutes) ==
    /\ AbsMinutes(e, c) # None
    /\ Unwrap(AbsMinutes(e, c)) <= window_minutes * UlpsPerDay

\* WHERE e.os = c.os AND ABS(...) <= ?2 (a NULL comparison selects no row)
InWindow(e, c, window_minutes) ==
    /\ e.os = c.os
    /\ AbsMinutes(e, c) # None
    /\ Unwrap(AbsMinutes(e, c)) <= window_minutes * UlpsPerDay

\* FROM events e JOIN crashes c ON c.id = ?1 WHERE ...: the selected rows,
\* each with its ORDER BY key (ABS(...) ASC, e.timestamp DESC as text)
RECURSIVE Joined(_, _, _)
Joined(table, c, window_minutes) ==
    IF table = <<>> THEN <<>>
    ELSE LET e == Head(table)
             rest == Joined(Tail(table), c, window_minutes)
         IN  IF InWindow(e, c, window_minutes)
             THEN <<[row |-> e, key |-> <<0 - Unwrap(AbsMinutes(e, c))>> \o e.timestamp]>> \o rest
             ELSE rest

\* correlate_crash_events on the two tables
correlate_crash_events(table, crashTable, crash_id, window_minutes, limit) ==
    LET cs == SelectSeq(crashTable, LAMBDA c : c.id = crash_id)
    IN  IF cs = <<>> THEN <<>>
        ELSE LET ranked == Truncate(StableSortDesc(Joined(table, cs[1], window_minutes)), limit)
             IN  [i \in 1..Len(ranked) |-> ranked[i].row]

\* main.rs get_crash_related_events
get_crash_related_events(table, crashTable, crash_id, window_minutes, limit) ==
    LET window == Clamp(UnwrapOr(window_minutes, 15), 1, 180)
        max_related == Min(UnwrapOr(limit, 200), 2000)
    IN  correlate_crash_events(table, crashTable, crash_id, window, max_related)
----------------------------------------------------------------------------
(* The store as a state machine: save calls step by step, and correlation *)

\* the instant of the crashes of the model, in seconds
CrashTime == 11000

StoredEvent(id, os, text, message) ==
    [id |-> id, timestamp |-> text, os |-> os, message |-> message, imported |-> FALSE]

StoredCrash(id, os, text, summary) ==
    [id |-> id, timestamp |-> text, os |-> os, summary |-> summary, imported |-> TRUE]

\* the batches refresh_local_events saves (every event has a fresh id):
\* journal events at the crash and one minute before and after it; journal
\* events at and around 15 and 180 minutes; a Windows event with a
\* SystemTime text and a unified-log event with its native local timestamp
EventBatches ==
    {<<StoredEvent("e0", "linux", to_rfc3339(CrashTime), "at"),
       StoredEvent("e1", "linux", to_rfc3339(CrashTime - 60), "1 before"),
       StoredEvent("e2", "linux", to_rfc3339(CrashTime + 60), "1 after")>>,
     <<StoredEvent("e3", "linux", to_rfc3339(CrashTime + 900), "15 after"),
       StoredEvent("e4", "linux", to_rfc3339(CrashTime - 900), "15 before"),
       StoredEvent("e5", "linux", to_rfc3339(CrashTime + 960), "16 after"),
       StoredEvent("e6", "linux", to_rfc3339(CrashTime - 10800), "180 before"),
       StoredEvent("e7", "linux", to_rfc3339(CrashTime + 10860), "181 after")>>,
     <<StoredEvent("w0", "windows", SystemTimeText(CrashTime + 120), "2 after"),
       StoredEvent("m0", "macos", LocalTimeText(CrashTime + 120, 8), "2 after")>>}

\* the batches of crashes saved: one crash per platform, and a crash that is
\* imported and saved again (its id is a function of its fields)
CrashBatches ==
    {<<StoredCrash("c-linux", "linux", to_rfc3339(CrashTime), "core"),
       StoredCrash("c-windows", "windows", to_rfc3339(CrashTime), "wer"),
       StoredCrash("c-macos", "macos", to_rfc3339(CrashTime), "ips")>>,
     <<StoredCrash("c-linux", "linux", to_rfc3339(CrashTime), "core, again")>>}

\* the arguments a caller of get_crash_related_events passes
CrashIdInputs == {"c-linux", "c-windows", "c-macos", "c-unknown"}
WindowInputs == {None, Some(0 - 5), Some(1), Some(16), Some(500)}
RelatedLimitInputs == {None, Some(0), Some(2), Some(5000)}

TableOf(kind) == IF kind = "events" THEN eventRows ELSE crashRows

\* what a save call that returns leaves: its table, and the record of the
\* call with the number of tx.execute calls that had succeeded
Returned(kind, batch, table, upserts, ok) ==
    /\ eventRows' = IF kind = "events" THEN table ELSE eventRows
    /\ crashRows' = IF kind = "crashes" THEN table ELSE crashRows
    /\ dbTx' = None
    /\ dbSaved' = Some([kind |-> kind, batch |-> batch, before |-> TableOf(kind),
                         upserts |-> upserts, ok |-> ok])

InitStore ==
    /\ hostOs \in {"linux"}
    /\ programData = None
    /\ fs = FileSystem(hostOs, [i \in 1..2 |-> MissingFile])
    /\ ScanIdle
    /\ StoreIdle
    /\ LoggerIdle
    /\ CrashIdle
    /\ CollectorIdle
    /\ ParserIdle

\* save_local_events / save_crashes: open_connection and conn.transaction()
SaveBegin ==
    /\ dbTx = None
    /\ \E kind \in {"events", "crashes"} :
       \E batch \in (IF kind = "events" THEN EventBatches ELSE CrashBatches) :
          \/ /\ dbTx' = Some([kind |-> kind, batch |-> batch, idx |-> 1, work |-> TableOf(kind)])
             /\ dbSaved' = None
             /\ UNCHANGED <<eventRows, crashRows>>
          \/ Returned(kind, batch, TableOf(kind), 0, FALSE)
    /\ dbRelated' = None
    /\ UNCHANGED <<crashVars, collectVars, parseVars, scanVars, logVars>>

\* one turn of the for loop: tx.execute(...)?
SaveUpsert ==
    /\ dbTx # None
    /\ Unwrap(dbTx).idx <= Len(Unwrap(dbTx).batch)
    /\ \E t \in {Unwrap(dbTx)} :
          \/ /\ dbTx' = Some([t EXCEPT !.idx = @ + 1,
                                       !.work = UpsertRow(t.kind, @, t.batch[t.idx])])
             /\ UNCHANGED <<eventRows, crashRows, dbSaved>>
          \/ Returned(t.kind, t.batch, AfterFailure(TableOf(t.kind), t.work), t.idx - 1, FALSE)
    /\ UNCHANGED <<dbRelated, crashVars, collectVars, parseVars, scanVars, logVars>>

\* tx.commit()?
SaveCommit ==
    /\ dbTx # None
    /\ Unwrap(dbTx).idx > Len(Unwrap(dbTx).batch)
    /\ \E t \in {Unwrap(dbTx)} :
          \/ Returned(t.kind, t.batch, t.work, t.idx - 1, TRUE)
          \/ Returned(t.kind, t.batch, AfterFailure(TableOf(t.kind), t.work), t.idx - 1, FALSE)
    /\ UNCHANGED <<dbRelated, crashVars, collectVars, parseVars, scanVars, logVars>>

\* the command get_crash_related_events
Correlate ==
    /\ dbTx = None
    /\ \E crash_id \in CrashIdInputs, window_minutes \in WindowInputs, limit \in RelatedLimitInputs :
          dbRelated' = Some([crash_id |-> crash_id, window_minutes |-> window_minutes,
                             limit |-> limit,
                             rows |-> get_crash_related_events(eventRows, crashRows, crash_id,
                                                               window_minutes, limit)])
    /\ dbSaved' = None
    /\ UNCHANGED <<eventRows, crashRows, dbTx>>
    /\ UNCHANGED <<crashVars, collectVars, parseVars, scanVars, logVars>>

NextStore == SaveBegin \/ SaveUpsert \/ SaveCommit \/ Correlate

SpecStore == InitStore /\ [][NextStore]_vars
----------------------------------------------------------------------------
(* Properties of the store (SpecStore) *)

\* the instant a stored timestamp text denotes, in seconds: UTC texts as
\* written, a local time with its offset added back
InstantOf(text) ==
    IF Len(text) = 4 THEN text[1] * 10 + text[2] + text[4] ELSE text[1] * 10 + text[2]

\* the distance of two stored rows in time, in seconds
SecondsApart(e, c) ==
    IF InstantOf(e.timestamp) >= InstantOf(c.timestamp)
    THEN InstantOf(e.timestamp) - InstantOf(c.timestamp)
    ELSE InstantOf(c.timestamp) - InstantOf(e.timestamp)

\* the window and the maximum of the contract
ContractWindow(window_minutes) ==
    IF window_minutes = None THEN 15
    ELSE IF window_minutes[1] < 1 THEN 1
    ELSE IF window_minutes[1] > 180 THEN 180 ELSE window_minutes[1]

ContractLimit(limit) ==
    IF limit = None THEN 200 ELSE IF limit[1] > 2000 THEN 2000 ELSE limit[1]

\* the stored crash of the id, as a set of at most one row
CrashOf(crash_id) == {crashRows[i] : i \in {j \in DOMAIN crashRows : crashRows[j].id = crash_id}}

\* the stored events of the crash's os within the window of the crash
Related(c, window_minutes) ==
    {e \in Range(eventRows) :
        e.os = c.os /\ SecondsApart(e, c) <= ContractWindow(window_minutes) * 60}

\* e comes before f in the contract's order: closer to the crash, or as close
\* and not older
RanksBefore(e, f, c) ==
    \/ SecondsApart(e, c) < SecondsApart(f, c)
    \/ /\ SecondsApart(e, c) = SecondsApart(f, c)
       /\ InstantOf(e.timestamp) >= InstantOf(f.timestamp)

\* C23: for a stored crash, correlation returns exactly the stored events of
\* the crash's os that lie within the window (minutes, clamped to 1..180,
\* default 15) of the crash, closest first and among equally close ones the
\* more recent first, cut to the maximum (default 200, at most 2000); an
\* unknown crash id gives an empty list.
C23_CorrelationExact ==
    dbRelated # None =>
        LET call == Unwrap(dbRelated)
        IN  /\ CrashOf(call.crash_id) = {} => call.rows = <<>>
            /\ \A c \in CrashOf(call.crash_id) :
                  /\ Range(call.rows) \subseteq Related(c, call.window_minutes)
                  /\ Len(call.rows) = Min(ContractLimit(call.limit),
                                          Cardinality(Related(c, call.window_minutes)))
                  /\ \A i, j \in DOMAIN call.rows :
                        i < j => RanksBefore(call.rows[i], call.rows[j], c)
                  /\ \A q \in Related(c, call.window_minutes) \ Range(call.rows) :
                        \A i \in DOMAIN call.rows : RanksBefore(call.rows[i], q, c)

\* what does hold: every row returned is a stored event of the crash's os
\* within the window, no row is returned twice, the list is no longer than
\* the maximum, and an unknown crash id gives an empty list
CorrelationSound ==
    dbRelated # None =>
        LET call == Unwrap(dbRelated)
        IN  /\ CrashOf(call.crash_id) = {} => call.rows = <<>>
            /\ \A c \in CrashOf(call.crash_id) :
                  /\ Range(call.rows) \subseteq Related(c, call.window_minutes)
                  /\ Len(call.rows) <= ContractLimit(call.limit)
                  /\ Cardinality(Range(call.rows)) = Len(call.rows)

\* the columns a save call writes from the record: every column of a crash,
\* every column of an event but imported
Written(kind, row, record) ==
    IF kind = "events" THEN [row EXCEPT !.imported = 0] = EventRow(record)
    ELSE row = CrashRow(record)

\* C29: save_crashes and save_local_events are all-or-nothing per batch: a
\* call in which the opening, an upsert or the commit failed returns an
\* error and leaves the table exactly as it was; a call that succeeded
\* leaves a row for every record of the batch, with the record's columns,
\* and the rows of other ids as they were.
C29_SaveAllOrNothing ==
    dbSaved # None =>
        LET call == Unwrap(dbSaved)
            table == TableOf(call.kind)
            ids == {call.batch[i].id : i \in DOMAIN call.batch}
        IN  /\ ~call.ok => table = call.before
            /\ call.ok =>
                  /\ call.upserts = Len(call.batch)
                  /\ \A i \in DOMAIN call.batch :
                        \E j \in DOMAIN table :
                            /\ table[j].id = call.batch[i].id
                            /\ Written(call.kind, table[j], call.batch[i])
                  /\ \A j \in DOMAIN call.before :
                        call.before[j].id \notin ids => call.before[j] \in Range(table)
                  /\ \A j \in DOMAIN table :
                        table[j].id \notin ids => table[j] \in Range(call.before)
            /\ \A i, j \in DOMAIN table : table[i].id = table[j].id => i = j

\* a save of crashes failed after an upsert that had rewritten a stored row
C29_Witness ==
    /\ dbSaved # None
    /\ ~Unwrap(dbSaved).ok
    /\ Unwrap(dbSaved).kind = "crashes"
    /\ Unwrap(dbSaved).upserts = 1
    /\ \E j \in DOMAIN crashRows :
          /\ crashRows[j].id = Unwrap(dbSaved).batch[1].id
          /\ crashRows[j].summary # Unwrap(dbSaved).batch[1].summary
----------------------------------------------------------------------------
(* diagnostics.rs: the process-wide logger *)

LOG_RETENTION_DAYS == 7

\* the local dates of the model, in order
Days == 1..MaxDays

\* the day number of a date: the dates after the second come more than the
\* retention later
DayNumber(date) == IF date <= 2 THEN date ELSE date + LOG_RETENTION_DAYS + 1

\* a date of logs_dir without a diagnostics-<date>.log file
NoLog == [exists |-> FALSE, lines |-> <<>>, mtime |-> 0]

\* OpenOptions::new().create(true).append(true).open(path): the file is
\* created when it is missing
Opened(files, date) ==
    IF files[date].exists THEN files
    ELSE [files EXCEPT ![date] = [exists |-> TRUE, lines |-> <<>>, mtime |-> DayNumber(date)]]

\* prune_old_logs: every log file last modified before the cutoff is removed
prune_old_logs(files, now) ==
    [d \in DOMAIN files |->
        IF files[d].exists /\ files[d].mtime < DayNumber(now) - LOG_RETENTION_DAYS THEN NoLog
        ELSE files[d]]

rotate_if_needed_Never(st, files, current_date, date, opened) == [st |-> st, files |-> files]

\* rotate_if_needed: current_date is the date it reads, date the date
\* open_log_file reads, opened whether the open succeeds
rotate_if_needed(st, files, current_date, date, opened) ==
    IF current_date = st.date_key THEN [st |-> st, files |-> files]
    ELSE IF opened
    THEN [st |-> [date_key |-> date, file |-> date],
          files |-> prune_old_logs(Opened(files, date), date)]
    ELSE [st |-> st, files |-> files]

\* writeln!(state.file, "{line}")
Appended(files, file, n, now) ==
    [files EXCEPT ![file] = [exists |-> @.exists, lines |-> Append(@.lines, n),
                             mtime |-> DayNumber(now)]]

\* write_entry of entry n: lg is LOGGER, written whether the writeln succeeds;
\* to is where the entry went
write_entry(lg, files, n, current_date, date, opened, written) ==
    IF lg = None THEN [logger |-> lg, files |-> files, to |-> "stderr"]
    ELSE LET r == rotate_if_needed(Unwrap(lg), files, current_date, date, opened)
         IN  IF written
             THEN [logger |-> Some(r.st), files |-> Appended(r.files, r.st.file, n, date),
                   to |-> "file"]
             ELSE [logger |-> Some(r.st), files |-> r.files, to |-> "stderr"]

\* what a write_entry call leaves behind, and the record of the call
Logged(lg, files, date, opened, written) ==
    \E r \in {write_entry(lg, files, logCount + 1, today, date, opened, written)} :
        /\ logger' = r.logger
        /\ logFiles' = r.files
        /\ logCount' = logCount + 1
        /\ logBefore' = [d \in Days |-> files[d]]
        /\ lastLog' = Some([entry |-> logCount + 1, was |-> lg,
                            current_date |-> today,
                            opened |-> IF lg = None \/ today = Unwrap(lg).date_key THEN "none"
                                       ELSE IF opened THEN "ok" ELSE "failed",
                            date |-> date,
                            files |-> [d \in Days |-> r.files[d]],
                            to |-> r.to])

InitLog ==
    /\ hostOs \in {"linux"}
    /\ programData = None
    /\ fs = FileSystem(hostOs, [i \in 1..2 |-> MissingFile])
    /\ logger = None
    /\ logFiles \in {[d \in Days |-> IF d = 1 THEN f ELSE NoLog] :
                        f \in {NoLog, [exists |-> TRUE, lines |-> <<0>>, mtime |-> 1]}}
    /\ today = 1
    /\ logCount = 0
    /\ lastLog = None
    /\ logBefore = logFiles
    /\ ScanIdle
    /\ StoreIdle
    /\ CrashIdle
    /\ CollectorIdle
    /\ ParserIdle

\* init_logging while LOGGER is not set: create_dir_all, prune_old_logs,
\* open_log_file, LOGGER.set, and the startup entry
InitLogging ==
    /\ logger = None
    /\ logCount < MaxEntries
    /\ \/ UNCHANGED <<logger, logFiles, logCount, lastLog, logBefore>>
       \/ /\ logFiles' = prune_old_logs(logFiles, today)
          /\ UNCHANGED <<logger, logCount, lastLog, logBefore>>
       \/ \E written \in BOOLEAN :
            Logged(Some([date_key |-> today, file |-> today]),
                   Opened(prune_old_logs(logFiles, today), today), today, TRUE, written)
    /\ UNCHANGED today
    /\ UNCHANGED <<crashVars, collectVars, parseVars, scanVars, storeVars>>

\* info / warn / error: write_entry under the mutex; the clock may pass
\* midnight between the two readings of the date
WriteEntry ==
    /\ logCount < MaxEntries
    /\ \E date \in {d \in Days : d >= today}, opened \in BOOLEAN, written \in BOOLEAN :
          /\ (logger = None \/ today = Unwrap(logger).date_key) => (date = today /\ opened)
          /\ Logged(logger, logFiles, date, opened, written)
          /\ today' = date
    /\ UNCHANGED <<crashVars, collectVars, parseVars, scanVars, storeVars>>

\* the local date changes
Tick ==
    /\ \E date \in {d \in Days : d > today} : today' = date
    /\ UNCHANGED <<logger, logFiles, logCount, lastLog, logBefore>>
    /\ UNCHANGED <<crashVars, collectVars, parseVars, scanVars, storeVars>>

NextLog == InitLogging \/ WriteEntry \/ Tick

SpecLog == InitLog /\ [][NextLog]_vars
----------------------------------------------------------------------------
(* Properties of the logger (SpecLog) *)

\* the file a write_entry call directs its line to: the file of the state
\* that rotate_if_needed leaves
TargetOf(call) == IF call.opened = "ok" THEN call.date ELSE Unwrap(call.was).file

\* the files other than file keep their lines, unless pruning removed them
OthersKeepLines(call, file) ==
    \A d \in Days : d # file => \/ call.files[d] = logBefore[d]
                                \/ call.files[d] = NoLog

\* C27 (as stated): the logger rotates before it writes: on a write_entry
\* after the local date has changed, if the new day's file can be opened the
\* entry is appended to that file and the state's date key becomes the
\* current date; if it cannot be opened the logger state is left unchanged
\* and the entry is appended to the previously open file; a write_entry
\* before initialization never touches a file
C27_RotatesBeforeWrite ==
    lastLog # None =>
        LET call == Unwrap(lastLog)
        IN  /\ call.was = None => (call.files = logBefore /\ logger = None)
            /\ call.opened = "ok" =>
                  /\ logger = Some([date_key |-> call.date, file |-> call.date])
                  /\ logFiles = call.files
                  /\ logFiles[call.date].exists
                  /\ logFiles[call.date].lines
                        = Append(logBefore[call.date].lines, call.entry)
            /\ call.opened = "failed" =>
                  /\ logger = call.was
                  /\ logFiles = call.files
                  /\ logFiles[Unwrap(call.was).file].lines
                        = Append(logBefore[Unwrap(call.was).file].lines, call.entry)

\* C27 (amended): the logger rotates before it writes: after a date change
\* the line is directed to the new day's file and the date key becomes the
\* current date when that file can be opened, and to the previously open
\* file with the state unchanged when it cannot; the entry is appended to
\* that file when the write succeeds and goes to stderr, with no file
\* gaining a line, when it fails; no other file gains a line; a write_entry
\* before initialization never touches a file
C27_RotatesThenWritesOrFallsBack ==
    lastLog # None =>
        LET call == Unwrap(lastLog)
        IN  /\ call.was = None =>
                  (call.files = logBefore /\ logger = None /\ call.to = "stderr")
            /\ call.opened = "ok" =>
                  /\ logger = Some([date_key |-> call.date, file |-> call.date])
                  /\ logFiles[call.date].exists
            /\ (call.was # None /\ call.opened # "ok") => logger = call.was
            /\ call.was # None =>
                  /\ logFiles = call.files
                  /\ logFiles[TargetOf(call)].lines
                        = IF call.to = "file"
                          THEN Append(logBefore[TargetOf(call)].lines, call.entry)
                          ELSE logBefore[TargetOf(call)].lines
                  /\ OthersKeepLines(call, TargetOf(call))

\* a write_entry after the date changed opened the new day's file, which did
\* not exist, and appended the entry to it, the previous file keeping its lines
C27_Witness ==
    /\ lastLog # None
    /\ Unwrap(lastLog).opened = "ok"
    /\ Unwrap(lastLog).to = "file"
    /\ today = Unwrap(lastLog).date
    /\ ~logBefore[today].exists
    /\ logFiles[today].lines = <<Unwrap(lastLog).entry>>
    /\ logFiles[Unwrap(Unwrap(lastLog).was).file].lines # <<>>

\* a write_entry after the date changed could not open the new day's file and
\* appended the entry to the previously open file
RotationFailed_Witness ==
    /\ lastLog # None
    /\ Unwrap(lastLog).opened = "failed"
    /\ Unwrap(lastLog).to = "file"
    /\ ~logFiles[today].exists
====
